---- MODULE Spec2Model ----
(***************************************************************************)
(* Model of the compiled stream pipeline of typed-array-iterator.         *)
(*                                                                         *)
(* Two generations of the pipeline live in the repository:                 *)
(*   - "StreamCompiler": stream/compiler.ts + stream/StreamCompiler.ts,    *)
(*     with range operations folded into SKIP / MAX bounds;                *)
(*   - "Stream": the Stream class of Stream.ts (second class of the file)  *)
(*     on top of stream/shared, whose drop/take are stateful filters.      *)
(* A generated function body is modelled by what it does when it is run:  *)
(* the loop skeletons are operators that execute the loop over the source. *)
(***************************************************************************)
EXTENDS Integers, Sequences, FiniteSets, TLC

\* ---------------------------------------------------------------- bounds
MaxLen == 3
MaxOps == 2
MaxBound == 1
MaxRuns == 2

\* the seed handed to reduce when one is given
Seed == 10

Max(a, b) == IF a >= b THEN a ELSE b
Min(a, b) == IF a <= b THEN a ELSE b

\* the 32-bit conversions of JS, scaled: a word has Int32Bits bits instead of 32, so
\* that 2^(Int32Bits - 1) stands for 2^31 and 2^Int32Bits for 2^32
Int32Bits == 4

RECURSIVE pow2(_)
pow2(n) == IF n = 0 THEN 1 ELSE 2 * pow2(n - 1)

\* JS `x | 0` on a whole number: modulo 2^32 into [-2^31, 2^31)
ToInt32(n) ==
  ((n + pow2(Int32Bits - 1) + 4 * pow2(Int32Bits)) % pow2(Int32Bits)) - pow2(Int32Bits - 1)
\* JS `x >>> 0` on a whole number: modulo 2^32 into [0, 2^32)
ToUint32(n) == (n + 4 * pow2(Int32Bits)) % pow2(Int32Bits)
UShr1(n) == ToUint32(n) \div 2

\* `undefined` / `null` is the empty tuple, a present number n is <<n>>
undefined == <<>>

\* ------------------------------------------------------- operation model
TransformOp(fn, arity) ==
  [fn |-> fn, arity |-> arity, kind |-> "transform", start |-> 0, end |-> undefined]
MapOp(fn, arity) ==
  [fn |-> fn, arity |-> arity, kind |-> "map", start |-> 0, end |-> undefined]
FilterOp(fn, arity) ==
  [fn |-> fn, arity |-> arity, kind |-> "filter", start |-> 0, end |-> undefined]
RangeOp(start, end) ==
  [fn |-> "", arity |-> 0, kind |-> "range", start |-> start, end |-> end]

\* user callbacks used as inputs: name and declared parameter count (fn.length)
MapFns == { <<"inc", 1>>, <<"addIdx", 2>> }
FilterFns == { <<"isOdd", 1>>, <<"idxOdd", 2>>, <<"noMatch", 0>> }

callMap(fn, v, i) ==
  CASE fn = "inc" -> v + 1
    [] fn = "addIdx" -> v + i
    [] OTHER -> v

\* `cell` is the closure variable `remaining` of a drop/take filter
callFilter(fn, v, i, cell) ==
  CASE fn = "isOdd" -> v % 2 = 1
    [] fn = "idxOdd" -> i % 2 = 1
    [] fn = "noMatch" -> FALSE
    [] fn = "dropClosure" -> cell <= 0
    [] fn = "takeClosure" -> cell > 0
    [] OTHER -> TRUE

isClosure(fn) == fn \in {"dropClosure", "takeClosure"}

\* terminal callbacks
callPredicate(fn, v, i) ==
  CASE fn = "gt1" -> v > 1
    [] OTHER -> FALSE

callReducer(fn, acc, v, i) ==
  CASE fn = "sum" -> acc + v
    [] OTHER -> acc

\* a callback that throws: v => { if (v === 2) throw new Error('boom'); ... }; when it
\* does not throw it behaves as the OTHER case of its kind above
Throwing == "throwsOn2"
Boom == "boom"
raises(fn, v) == fn = Throwing /\ v = 2

\* ------------------------------------------------------------- outcomes
Ret(kind) == [kind |-> kind, arr |-> <<>>, val |-> 0, flag |-> FALSE, msg |-> ""]
RetArray(a) == [Ret("array") EXCEPT !.arr = a]
RetUndefined == Ret("undefined")
RetBoolean(b) == [Ret("boolean") EXCEPT !.flag = b]
RetNumber(n) == [Ret("number") EXCEPT !.val = n]
Thrown(m) == [Ret("throw") EXCEPT !.msg = m]
\* a JS value that is a number or undefined
RetMaybe(x) == IF x = undefined THEN RetUndefined ELSE RetNumber(x[1])

RangeWithFiltersError == "Stream limitation: range(start > 0) with filters is not yet supported."
EmptyReduceError == "Reduce of empty stream with no initial value"
ReferenceError == "ReferenceError"

\* ----------------------------------------------------------- compiler.ts
hasAnyFilter(ops) == \E k \in 1..Len(ops) : ops[k].kind = "filter"

hasNoMatchOps(ops) ==
  \E k \in 1..Len(ops) : ops[k].kind # "range" /\ ops[k].fn = "noMatch"

addFilterOp(op, pos, state) ==
  [state EXCEPT
     !.opsNeedIndex = state.opsNeedIndex \/ op.arity >= 2,
     !.lines = Append(state.lines,
                 [fn |-> op.fn, kind |-> "filter", pos |-> pos, withIndex |-> op.arity >= 2])]

addMapOp(op, pos, state) ==
  [state EXCEPT
     !.opsNeedIndex = state.opsNeedIndex \/ op.arity >= 2,
     !.lines = Append(state.lines,
                 [fn |-> op.fn, kind |-> "map", pos |-> pos, withIndex |-> op.arity >= 2])]

applyRange(start, end, agg) ==
  LET s == Max(0, ToInt32(start))
      len == IF end = undefined THEN undefined ELSE << Max(0, ToInt32(end[1]) - s) >>
      m1 == IF len # undefined
              THEN (IF agg.maxEmits = undefined THEN len
                    ELSE << Min(agg.maxEmits[1], len[1]) >>)
              ELSE agg.maxEmits
      m2 == IF m1 # undefined THEN << Max(0, m1[1]) >> ELSE m1
  IN [maxEmits |-> m2, skipInitial |-> agg.skipInitial + s]

NO_RESULTS ==
  [opsNeedIndex |-> FALSE, lines |-> <<>>, maxEmits |-> <<0>>, skipInitial |-> 0,
   threw |-> FALSE, hasFilter |-> TRUE, noResults |-> TRUE]

RECURSIVE walkOps(_, _, _, _)
walkOps(ops, i, state, agg) ==
  IF i > Len(ops) THEN [state |-> state, agg |-> agg]
  ELSE LET op == ops[i] IN
    CASE op.kind = "filter" -> walkOps(ops, i + 1, addFilterOp(op, i, state), agg)
      [] op.kind = "transform" -> walkOps(ops, i + 1, addMapOp(op, i, state), agg)
      [] op.kind = "range" -> walkOps(ops, i + 1, state, applyRange(op.start, op.end, agg))
      [] OTHER -> walkOps(ops, i + 1, state, agg)

hasPositiveStartRange(ops) ==
  \E k \in 1..Len(ops) : ops[k].kind = "range" /\ ToInt32(ops[k].start) > 0

\* variant: the range(start > 0)-with-filters guard is left out
buildOpsUnrolledUnguarded(ops) ==
  LET hasFilter == hasAnyFilter(ops) IN
  IF hasFilter /\ hasNoMatchOps(ops)
    THEN NO_RESULTS
  ELSE LET w == walkOps(ops, 1, [opsNeedIndex |-> FALSE, lines |-> <<>>],
                        [maxEmits |-> undefined, skipInitial |-> 0])
       IN [opsNeedIndex |-> w.state.opsNeedIndex, lines |-> w.state.lines,
           maxEmits |-> w.agg.maxEmits, skipInitial |-> w.agg.skipInitial,
           threw |-> FALSE, hasFilter |-> hasFilter,
           noResults |-> FALSE]

buildOpsUnrolled(ops) ==
  LET hasFilter == hasAnyFilter(ops) IN
  IF hasFilter /\ hasPositiveStartRange(ops)
    THEN [NO_RESULTS EXCEPT !.threw = TRUE, !.noResults = FALSE]
  ELSE IF hasFilter /\ hasNoMatchOps(ops)
    THEN NO_RESULTS
  ELSE LET w == walkOps(ops, 1, [opsNeedIndex |-> FALSE, lines |-> <<>>],
                        [maxEmits |-> undefined, skipInitial |-> 0])
       IN [opsNeedIndex |-> w.state.opsNeedIndex, lines |-> w.state.lines,
           maxEmits |-> w.agg.maxEmits, skipInitial |-> w.agg.skipInitial,
           threw |-> FALSE, hasFilter |-> hasFilter,
           noResults |-> FALSE]

\* stream/shared (the first generation): map/filter only, no bounds
RECURSIVE sharedWalk(_, _, _)
sharedWalk(ops, i, state) ==
  IF i > Len(ops) THEN state
  ELSE IF ops[i].kind = "filter"
    THEN sharedWalk(ops, i + 1, addFilterOp(ops[i], i, state))
    ELSE sharedWalk(ops, i + 1, addMapOp(ops[i], i, state))

sharedBuildOpsUnrolled(ops) ==
  LET st == sharedWalk(ops, 1, [opsNeedIndex |-> FALSE, lines |-> <<>>])
  IN [opsNeedIndex |-> st.opsNeedIndex, lines |-> st.lines, maxEmits |-> undefined,
      skipInitial |-> 0, threw |-> FALSE,
      hasFilter |-> hasAnyFilter(ops), noResults |-> FALSE]

\* ------------------------------------------- execution of a generated body
\* state of one run of a generated function
startState(cells) ==
  [cells |-> cells, skipLeft |-> 0, emittedIndex |-> 0, result |-> <<>>,
   accumulator |-> undefined, started |-> FALSE, calls |-> <<>>, opCalls |-> 0, reads |-> 0,
   trace |-> <<>>,
   done |-> FALSE, returned |-> FALSE, outcome |-> RetUndefined,
   nextCalls |-> 0, returnCalls |-> 0]

\* variant: the result is kept but the loop goes on to the end of the source
leaveAtEnd(st, outcome) == [st EXCEPT !.returned = TRUE, !.outcome = outcome]

leave(st, outcome) == [st EXCEPT !.done = TRUE, !.returned = TRUE, !.outcome = outcome]

\* JS array writes: `a[i] = v` and `a.length = n` (0 stands for a hole)
Hole == 0
arraySet(a, i, v) ==
  [k \in 1..Max(Len(a), i + 1) |-> IF k = i + 1 THEN v ELSE IF k <= Len(a) THEN a[k] ELSE Hole]
\* variant: the final "result.length = emittedIndex" is left out
arraySetLengthUntrimmed(a, n) == a

arraySetLength(a, n) == [k \in 1..n |-> IF k <= Len(a) THEN a[k] ELSE Hole]
newArray(n) == [k \in 1..n |-> Hole]

\* the fused `lines`: filterN / mapN applied to currentValue, `continue` on a failing filter
\* one event of a run, in order: a source read, an op callback call, a terminal callback call
event(what, fn, v) == [fn |-> fn, v |-> v, what |-> what]

RECURSIVE execLines(_, _, _, _, _, _, _)
execLines(lines, k, v, index, cells, n, tr) ==
  IF k > Len(lines)
    THEN [threw |-> "", cells |-> cells, opCalls |-> n, trace |-> tr, pass |-> TRUE,
          value |-> v]
  ELSE LET l == lines[k]
           i == IF index = undefined THEN 0 ELSE index[1]
           tr2 == Append(tr, event("op", l.fn, v))
       IN IF l.withIndex /\ index = undefined
            THEN [threw |-> ReferenceError, cells |-> cells, opCalls |-> n, trace |-> tr,
                  pass |-> FALSE, value |-> v]
          ELSE IF raises(l.fn, v)
            THEN [threw |-> Boom, cells |-> cells, opCalls |-> n + 1, trace |-> tr2,
                  pass |-> FALSE, value |-> v]
          ELSE IF l.kind = "filter"
            THEN LET ok == callFilter(l.fn, v, i, cells[l.pos])
                     c2 == IF isClosure(l.fn) THEN [cells EXCEPT ![l.pos] = @ - 1] ELSE cells
                 IN IF ok THEN execLines(lines, k + 1, v, index, c2, n + 1, tr2)
                    ELSE [threw |-> "", cells |-> c2, opCalls |-> n + 1, trace |-> tr2,
                          pass |-> FALSE, value |-> v]
          ELSE execLines(lines, k + 1, callMap(l.fn, v, i), index, cells, n + 1, tr2)

logCall(st, acc, v, i) == Append(st.calls, [v |-> v, i |-> i, acc |-> acc])

\* the terminal snippet of a compiled unit, run for one emitted value
execTerminal(unit, st, v) ==
  LET e == st.emittedIndex
      withIdx == [st EXCEPT !.calls = logCall(st, undefined, v, <<e>>), !.emittedIndex = e + 1]
      noIdx == [st EXCEPT !.calls = logCall(st, undefined, v, undefined)]
      p == callPredicate(unit.fn, v, e)
  IN CASE unit.terminal = "result[emittedIndex++] = currentValue" ->
            [st EXCEPT !.result = arraySet(st.result, e, v), !.emittedIndex = e + 1]
       [] unit.terminal = "sink(currentValue, emittedIndex++)" -> withIdx
       [] unit.terminal = "sink(currentValue)" -> noIdx
       [] unit.terminal = "reduce" ->
            IF st.started
              THEN [st EXCEPT !.accumulator = << callReducer(unit.fn, st.accumulator[1], v, e) >>,
                              !.calls = logCall(st, st.accumulator, v, <<e>>),
                              !.emittedIndex = e + 1]
              ELSE [st EXCEPT !.accumulator = <<v>>, !.started = TRUE, !.emittedIndex = e + 1]
       [] unit.terminal = "reduceNoIndex" ->
            IF st.started
              THEN [st EXCEPT !.accumulator = << callReducer(unit.fn, st.accumulator[1], v, e) >>,
                              !.calls = logCall(st, st.accumulator, v, undefined)]
              ELSE [st EXCEPT !.accumulator = <<v>>, !.started = TRUE]
       [] unit.terminal = "if (terminalPredicate(currentValue, emittedIndex++)) { return true }" ->
            IF p THEN leave(withIdx, RetBoolean(TRUE)) ELSE withIdx
       [] unit.terminal = "if (terminalPredicate(currentValue)) { return true }" ->
            IF p THEN leave(noIdx, RetBoolean(TRUE)) ELSE noIdx
       [] unit.terminal = "if (!terminalPredicate(currentValue, emittedIndex++)) { return false }" ->
            IF ~p THEN leave(withIdx, RetBoolean(FALSE)) ELSE withIdx
       [] unit.terminal = "if (!terminalPredicate(currentValue)) { return false }" ->
            IF ~p THEN leave(noIdx, RetBoolean(FALSE)) ELSE noIdx
       [] unit.terminal = "if (terminalPredicate(currentValue, emittedIndex++)) { return currentValue }" ->
            IF p THEN leave(withIdx, RetNumber(v)) ELSE withIdx
       [] unit.terminal = "if (terminalPredicate(currentValue)) { return currentValue }" ->
            IF p THEN leave(noIdx, RetNumber(v)) ELSE noIdx
       [] unit.terminal = "emittedIndex++" -> [st EXCEPT !.emittedIndex = e + 1]
       [] OTHER -> st

\* the terminal snippet with its callback call traced; a callback that throws ends the
\* generated function with that exception, its argument emittedIndex++ already evaluated
\* variant: the callback call wrapped in try { ... } catch { }
callTerminalSwallowing(unit, st, v) ==
  LET s == execTerminal(unit, st, v)
  IN IF Len(s.calls) > Len(st.calls)
       THEN [s EXCEPT !.trace = Append(@, event("terminal", unit.fn, v))]
     ELSE s

callTerminal(unit, st, v) ==
  LET s == execTerminal(unit, st, v)
      called == Len(s.calls) > Len(st.calls)
      traced == IF called THEN [s EXCEPT !.trace = Append(@, event("terminal", unit.fn, v))]
                ELSE s
  IN IF called /\ raises(unit.fn, v)
       THEN [leave(traced, Thrown(Boom)) EXCEPT !.accumulator = st.accumulator]
     ELSE traced

\* `if (MAX >= 0 && emittedIndex >= MAX) { ... }` after the terminal snippet
earlyStopAfterEmit(unit, st) ==
  IF unit.earlyStop = "" \/ ~(unit.MAX >= 0 /\ st.emittedIndex >= unit.MAX) THEN st
  ELSE CASE unit.earlyStop = "break" -> [st EXCEPT !.done = TRUE]
         [] unit.earlyStop = "return" -> leave(st, RetUndefined)
         [] unit.earlyStop = "return accumulator" ->
              IF ~st.started THEN leave(st, Thrown(EmptyReduceError))
              ELSE leave(st, RetMaybe(st.accumulator))
         [] unit.earlyStop = "return false" -> leave(st, RetBoolean(FALSE))
         [] unit.earlyStop = "return true" -> leave(st, RetBoolean(TRUE))
         [] unit.earlyStop = "return undefined" -> leave(st, RetUndefined)
         [] unit.earlyStop = "return emittedIndex" -> leave(st, RetNumber(st.emittedIndex))
         [] OTHER -> st

\* variant: the fused steps are handed the emitted index instead of the loop's index
loopBodyEmittedIndex(unit, raw, index, st) ==
  IF unit.needsSkip /\ st.skipLeft > 0 THEN [st EXCEPT !.skipLeft = @ - 1]
  ELSE LET r == execLines(unit.lines, 1, raw, <<st.emittedIndex>>, st.cells, st.opCalls, st.trace)
           s1 == [st EXCEPT !.cells = r.cells, !.opCalls = r.opCalls, !.trace = r.trace]
       IN IF r.threw # "" THEN leave(s1, Thrown(r.threw))
          ELSE IF ~r.pass THEN s1
          ELSE LET s2 == callTerminal(unit, s1, r.value)
               IN IF s2.done THEN s2 ELSE earlyStopAfterEmit(unit, s2)

\* one pass through the loop body, currentValue already read from the source
loopBody(unit, raw, index, st) ==
  IF unit.needsSkip /\ st.skipLeft > 0 THEN [st EXCEPT !.skipLeft = @ - 1]
  ELSE LET r == execLines(unit.lines, 1, raw, index, st.cells, st.opCalls, st.trace)
           s1 == [st EXCEPT !.cells = r.cells, !.opCalls = r.opCalls, !.trace = r.trace]
       IN IF r.threw # "" THEN leave(s1, Thrown(r.threw))
          ELSE IF ~r.pass THEN s1
          ELSE LET s2 == callTerminal(unit, s1, r.value)
               IN IF s2.done THEN s2 ELSE earlyStopAfterEmit(unit, s2)

skipPrelude(unit, st) == IF unit.needsSkip THEN [st EXCEPT !.skipLeft = unit.SKIP] ELSE st

RECURSIVE arrayLoop(_, _, _, _)
arrayLoop(unit, data, index, st) ==
  IF st.done \/ index >= Len(data) THEN st
  ELSE arrayLoop(unit, data, index + 1,
                 loopBody(unit, data[index + 1], <<index>>,
                          [st EXCEPT !.reads = @ + 1,
                                     !.trace = Append(@, event("read", "", data[index + 1]))]))

emitArrayLoop(unit, data, st) == arrayLoop(unit, data, 0, skipPrelude(unit, st))

\* for (const currentValueRaw of data): next() per iteration, return() on an abrupt exit
RECURSIVE iterableLoop(_, _, _, _)
iterableLoop(unit, data, logicalIndex, st) ==
  IF st.done THEN [st EXCEPT !.returnCalls = @ + 1]
  ELSE IF logicalIndex >= Len(data) THEN [st EXCEPT !.nextCalls = @ + 1]
  ELSE iterableLoop(unit, data, logicalIndex + 1,
         loopBody(unit, data[logicalIndex + 1],
                  IF unit.needsIndex THEN <<logicalIndex>> ELSE undefined,
                  [st EXCEPT !.nextCalls = @ + 1, !.reads = @ + 1,
                             !.trace = Append(@, event("read", "", data[logicalIndex + 1]))]))

\* variant: a hand-rolled next() loop, which leaves the iterator open on early exit
emitIterableLoopNoClose(unit, data, st) ==
  [iterableLoop(unit, data, 0, skipPrelude(unit, st)) EXCEPT !.returnCalls = 0]

\* variant: the for...of skeleton without the skip prelude (skipLeft starts at 0)
emitIterableLoopNoSkip(unit, data, st) == iterableLoop(unit, data, 0, st)

emitIterableLoop(unit, data, st) == iterableLoop(unit, data, 0, skipPrelude(unit, st))

\* ------------------------------------------------------ StreamCompiler.ts
\* a CompiledResult: the generated body (by parts), its parameter names and values
unitOf(b, arrayLike) ==
  [fn |-> "", lines |-> b.lines, maxEmits |-> b.maxEmits,
   skipInitial |-> b.skipInitial, threw |-> b.threw,
   hasFilter |-> b.hasFilter, noResults |-> b.noResults,
   terminal |-> "", earlyStop |-> "",
   MAX |-> IF b.maxEmits = undefined THEN -1 ELSE b.maxEmits[1], needsSkip |-> b.skipInitial > 0,
   SKIP |-> b.skipInitial, needsIndex |-> b.opsNeedIndex, arrayLike |-> arrayLike, argNames |-> {},
   body |-> "loop", hasInitial |-> FALSE, initialValue |-> undefined]

noResultsUnit(b, arrayLike, body) ==
  [unitOf(b, arrayLike) EXCEPT !.argNames = {}, !.body = body]

compileToArray(arrayLike, ops) ==
  LET b == buildOpsUnrolled(ops) IN
  IF b.threw THEN unitOf(b, arrayLike)
  ELSE IF b.noResults THEN noResultsUnit(b, arrayLike, "return []")
  ELSE [unitOf(b, arrayLike) EXCEPT
          !.argNames = {"data", "SKIP", "MAX"},
          !.body = "toArray",
          !.terminal = "result[emittedIndex++] = currentValue",
          !.needsIndex = b.opsNeedIndex,
          !.earlyStop = "break"]

compileForEach(arrayLike, ops, fn, arity) ==
  LET b == buildOpsUnrolled(ops) IN
  IF b.threw THEN unitOf(b, arrayLike)
  ELSE IF b.noResults THEN noResultsUnit(b, arrayLike, "return")
  ELSE [unitOf(b, arrayLike) EXCEPT
          !.argNames = {"data", "sink", "SKIP", "MAX"},
          !.body = "forEach",
          !.terminal = IF arity >= 2 THEN "sink(currentValue, emittedIndex++)"
                       ELSE "sink(currentValue)",
          !.needsIndex = b.opsNeedIndex \/ arity >= 2,
          !.earlyStop = "return",
          !.fn = fn]

compileReduce(arrayLike, ops, fn, arity, initialValue) ==
  LET b == buildOpsUnrolled(ops) IN
  IF b.threw THEN unitOf(b, arrayLike)
  ELSE IF b.noResults
    THEN [noResultsUnit(b, arrayLike, "if (!hasInitial) { throw } return initialValue")
            EXCEPT !.hasInitial = initialValue # undefined, !.initialValue = initialValue]
  ELSE [unitOf(b, arrayLike) EXCEPT
          !.argNames = {"data", "reducer", "hasInitial", "initialValue", "SKIP", "MAX"},
          !.body = "reduce",
          !.terminal = "reduce",
          !.needsIndex = b.opsNeedIndex \/ arity >= 3,
          !.earlyStop = "return accumulator",
          !.fn = fn,
          !.hasInitial = initialValue # undefined,
          !.initialValue = initialValue]

compileSome(arrayLike, ops, fn, arity) ==
  LET b == buildOpsUnrolled(ops) IN
  IF b.threw THEN unitOf(b, arrayLike)
  ELSE IF b.noResults THEN noResultsUnit(b, arrayLike, "return false")
  ELSE [unitOf(b, arrayLike) EXCEPT
          !.argNames = {"data", "terminalPredicate", "SKIP", "MAX"},
          !.body = "some",
          !.terminal = IF arity >= 2
            THEN "if (terminalPredicate(currentValue, emittedIndex++)) { return true }"
            ELSE "if (terminalPredicate(currentValue)) { return true }",
          !.needsIndex = b.opsNeedIndex \/ arity >= 2,
          !.earlyStop = "return false",
          !.fn = fn]

compileEvery(arrayLike, ops, fn, arity) ==
  LET b == buildOpsUnrolled(ops) IN
  IF b.threw THEN unitOf(b, arrayLike)
  ELSE IF b.noResults THEN noResultsUnit(b, arrayLike, "return false")
  ELSE [unitOf(b, arrayLike) EXCEPT
          !.argNames = {"data", "terminalPredicate", "SKIP", "MAX"},
          !.body = "every",
          !.terminal = IF arity >= 2
            THEN "if (!terminalPredicate(currentValue, emittedIndex++)) { return false }"
            ELSE "if (!terminalPredicate(currentValue)) { return false }",
          !.needsIndex = b.opsNeedIndex \/ arity >= 2,
          !.earlyStop = "return true",
          !.fn = fn]

compileFind(arrayLike, ops, fn, arity) ==
  LET b == buildOpsUnrolled(ops) IN
  IF b.threw THEN unitOf(b, arrayLike)
  ELSE IF b.noResults THEN noResultsUnit(b, arrayLike, "return")
  ELSE [unitOf(b, arrayLike) EXCEPT
          !.argNames = {"data", "terminalPredicate", "SKIP", "MAX"},
          !.body = "find",
          !.terminal = IF arity >= 2
            THEN "if (terminalPredicate(currentValue, emittedIndex++)) { return currentValue }"
            ELSE "if (terminalPredicate(currentValue)) { return currentValue }",
          !.needsIndex = b.opsNeedIndex \/ arity >= 2,
          !.earlyStop = "return undefined",
          !.fn = fn]

compileCount(arrayLike, ops) ==
  LET b == buildOpsUnrolled(ops) IN
  IF b.threw THEN unitOf(b, arrayLike)
  ELSE IF b.noResults THEN noResultsUnit(b, arrayLike, "return 0")
  ELSE [unitOf(b, arrayLike) EXCEPT
          !.argNames = {"data", "SKIP", "MAX"},
          !.body = "count",
          !.terminal = "emittedIndex++",
          !.needsIndex = b.opsNeedIndex,
          !.earlyStop = "return emittedIndex"]

\* the statements of a generated body around its loop
prologue(unit, data, st) ==
  CASE unit.body = "toArray" ->
         [st EXCEPT !.result =
            IF unit.arrayLike
              THEN newArray(IF unit.MAX >= 0
                              THEN Max(0, Min(unit.MAX, ToUint32(Len(data) - unit.SKIP)))
                              ELSE IF unit.hasFilter THEN UShr1(Len(data)) ELSE Len(data))
              ELSE <<>>]
    [] unit.body = "reduce" ->
         [st EXCEPT !.started = unit.hasInitial, !.accumulator = unit.initialValue]
    [] OTHER -> st

epilogue(unit, st) ==
  IF st.returned THEN st
  ELSE CASE unit.body = "toArray" ->
              [st EXCEPT !.outcome = RetArray(arraySetLength(st.result, st.emittedIndex))]
         [] unit.body = "forEach" -> [st EXCEPT !.outcome = RetUndefined]
         [] unit.body = "reduce" ->
              [st EXCEPT !.outcome = IF ~st.started THEN Thrown(EmptyReduceError)
                                     ELSE RetMaybe(st.accumulator)]
         [] unit.body = "some" -> [st EXCEPT !.outcome = RetBoolean(FALSE)]
         [] unit.body = "every" -> [st EXCEPT !.outcome = RetBoolean(TRUE)]
         [] unit.body = "find" -> [st EXCEPT !.outcome = RetUndefined]
         [] unit.body = "count" -> [st EXCEPT !.outcome = RetNumber(st.emittedIndex)]
         [] OTHER -> st

\* the bodies generated when the plan is marked noResults
noResultsBody(unit, st) ==
  CASE unit.body = "return []" -> [st EXCEPT !.outcome = RetArray(<<>>)]
    [] unit.body = "return" -> [st EXCEPT !.outcome = RetUndefined]
    [] unit.body = "return false" -> [st EXCEPT !.outcome = RetBoolean(FALSE)]
    [] unit.body = "return true" -> [st EXCEPT !.outcome = RetBoolean(TRUE)]
    [] unit.body = "return 0" -> [st EXCEPT !.outcome = RetNumber(0)]
    [] unit.body = "if (!hasInitial) { throw } return initialValue" ->
         [st EXCEPT !.outcome =
            IF ~({"hasInitial", "initialValue"} \subseteq unit.argNames)
              THEN Thrown(ReferenceError)
            ELSE IF ~unit.hasInitial THEN Thrown(EmptyReduceError)
            ELSE RetMaybe(unit.initialValue)]
    [] OTHER -> st

\* new Function(...argNames, body)(...values)
runUnit(unit, data, cells) ==
  LET st == startState(cells) IN
  IF unit.threw THEN [st EXCEPT !.outcome = Thrown(RangeWithFiltersError)]
  ELSE IF unit.noResults THEN noResultsBody(unit, st)
  ELSE LET s0 == prologue(unit, data, st)
           s1 == IF unit.arrayLike THEN emitArrayLoop(unit, data, s0)
                 ELSE emitIterableLoop(unit, data, s0)
       IN epilogue(unit, s1)

\* ------------------------------------------ Stream.ts (class Stream, second)
\* the terminals of the class compile on stream/shared: no SKIP, no MAX
toArray(arrayLike, ops) ==
  [unitOf(sharedBuildOpsUnrolled(ops), arrayLike) EXCEPT
     !.argNames = {"data"}, !.body = "toArray",
     !.terminal = "result[emittedIndex++] = currentValue"]

forEach(arrayLike, ops, fn, arity) ==
  LET b == sharedBuildOpsUnrolled(ops) IN
  [unitOf(b, arrayLike) EXCEPT
     !.argNames = {"data", "sink"}, !.body = "forEach",
     !.terminal = IF arity >= 2 THEN "sink(currentValue, emittedIndex++)"
                  ELSE "sink(currentValue)",
     !.needsIndex = b.opsNeedIndex \/ arity >= 2, !.fn = fn]

reduce(arrayLike, ops, fn, arity, initialValue) ==
  LET b == sharedBuildOpsUnrolled(ops) IN
  [unitOf(b, arrayLike) EXCEPT
     !.argNames = {"data", "reducer", "hasInitial", "initialValue"}, !.body = "reduce",
     !.terminal = IF arity >= 3 THEN "reduce" ELSE "reduceNoIndex",
     !.needsIndex = b.opsNeedIndex \/ arity >= 3, !.fn = fn,
     !.hasInitial = initialValue # undefined, !.initialValue = initialValue]

some(arrayLike, ops, fn, arity) ==
  LET b == sharedBuildOpsUnrolled(ops) IN
  [unitOf(b, arrayLike) EXCEPT
     !.argNames = {"data", "terminalPredicate"}, !.body = "some",
     !.terminal = IF arity >= 2
       THEN "if (terminalPredicate(currentValue, emittedIndex++)) { return true }"
       ELSE "if (terminalPredicate(currentValue)) { return true }",
     !.needsIndex = b.opsNeedIndex \/ arity >= 2, !.fn = fn]

every(arrayLike, ops, fn, arity) ==
  LET b == sharedBuildOpsUnrolled(ops) IN
  [unitOf(b, arrayLike) EXCEPT
     !.argNames = {"data", "terminalPredicate"}, !.body = "every",
     !.terminal = IF arity >= 2
       THEN "if (!terminalPredicate(currentValue, emittedIndex++)) { return false }"
       ELSE "if (!terminalPredicate(currentValue)) { return false }",
     !.needsIndex = b.opsNeedIndex \/ arity >= 2, !.fn = fn]

find(arrayLike, ops, fn, arity) ==
  LET b == sharedBuildOpsUnrolled(ops) IN
  [unitOf(b, arrayLike) EXCEPT
     !.argNames = {"data", "terminalPredicate"}, !.body = "find",
     !.terminal = IF arity >= 2
       THEN "if (terminalPredicate(currentValue, emittedIndex++)) { return currentValue }"
       ELSE "if (terminalPredicate(currentValue)) { return currentValue }",
     !.needsIndex = b.opsNeedIndex \/ arity >= 2, !.fn = fn]

\* ------------------------------------------------------------ state machine
VARIABLES
  version,    \* which generation of the pipeline: "StreamCompiler" or "Stream"
  source,     \* the elements of the source, in order
  arrayLike,  \* isArrayLike(source): indexed skeleton, else for...of skeleton
  ops,        \* the operation list of the pipeline value
  cells,      \* per operation: the closure variable `remaining` of a drop/take filter
  runs,       \* terminals invoked so far on this pipeline value
  call,       \* the last terminal invocation
  out,        \* the run of the last terminal invocation
  prev,       \* the run of the terminal invocation before it
  streams,    \* single-use generation: the Stream objects created (#ops, #used, #iter)
  last,       \* single-use generation: the last attempt to consume a stream
  query,      \* text search: the query string typed so far, a sequence of characters
  fields,     \* text search: the field names handed to filterText
  user,       \* text search: the element the search is applied to
  found,      \* text search: stream([user]).filterText(query, ...fields) keeps the element
  manual,     \* text search: manualSearch([user], query) keeps the element
  candidate,  \* source classifier: the value handed to isArrayLike
  verdict,    \* source classifier: <<>> before the call, then << what it returned >>
  accesses,   \* source classifier: what the call did to the candidate, in order
  pipelines,  \* Stream class: the pipeline values built over one source (#isArrayLike each)
  rows,       \* TypedArrayProxy: rawResponse.data, one value per row
  proxy       \* TypedArrayProxy: currentIndex, the iterations under way, what was observed

searchVars == <<query, fields, user, found, manual>>
classifierVars == <<candidate, verdict, accesses>>
proxyVars == <<rows, proxy>>
functionVars == <<searchVars, classifierVars, pipelines, proxyVars>>

vars ==
  <<version, source, arrayLike, ops, cells, runs, call, out, prev, streams, last, functionVars>>

NoClassifier ==
  /\ candidate = <<>>
  /\ verdict = <<>>
  /\ accesses = <<>>

NoPipelines == pipelines = <<>>

NoProxy ==
  /\ rows = <<>>
  /\ proxy = <<>>

NoSearch ==
  /\ query = <<>>
  /\ fields = <<>>
  /\ user = <<>>
  /\ found = FALSE
  /\ manual = FALSE

\* sources: runs of consecutive integers starting at 1 or at 2, the empty one included
RECURSIVE consecutive(_, _)
consecutive(first, n) ==
  IF n = 0 THEN <<>> ELSE Append(consecutive(first, n - 1), first + n - 1)

Sources == { consecutive(first, n) : first \in {1, 2}, n \in 0..MaxLen }

NoCall == [fn |-> "", arity |-> 0, kind |-> "", initialValue |-> undefined]
Call(kind, fn, arity, initialValue) ==
  [fn |-> fn, arity |-> arity, kind |-> kind, initialValue |-> initialValue]

InitOf(v) ==
  /\ version = v
  /\ source \in Sources
  /\ arrayLike \in BOOLEAN
  /\ ops = <<>>
  /\ cells = <<>>
  /\ runs = 0
  /\ call = NoCall
  /\ out = startState(<<>>)
  /\ prev = startState(<<>>)
  /\ streams = <<>>
  /\ last = <<>>
  /\ NoSearch
  /\ NoClassifier
  /\ NoPipelines
  /\ NoProxy

Init == InitOf("StreamCompiler")

append(op, cell) ==
  /\ runs = 0
  /\ Len(ops) < MaxOps
  /\ ops' = Append(ops, op)
  /\ cells' = Append(cells, cell)
  /\ UNCHANGED <<functionVars, version, source, arrayLike, runs, call, out, prev, streams, last>>

Transform == \E f \in MapFns : version = "StreamCompiler" /\ append(TransformOp(f[1], f[2]), 0)

Map == \E f \in MapFns : version = "Stream" /\ append(MapOp(f[1], f[2]), 0)

Filter == \E f \in FilterFns : append(FilterOp(f[1], f[2]), 0)

Range ==
  \E start \in 0..MaxBound, end \in {undefined} \cup { <<n>> : n \in 0..MaxBound } :
    version = "StreamCompiler" /\ append(RangeOp(start, end), 0)

Drop == \E n \in 0..MaxBound : version = "Stream" /\ append(FilterOp("dropClosure", 0), n)

Take == \E n \in 0..MaxBound : version = "Stream" /\ append(FilterOp("takeClosure", 0), n)

compile(v, al, o, c) ==
  IF v = "Stream"
    THEN CASE c.kind = "toArray" -> toArray(al, o)
           [] c.kind = "forEach" -> forEach(al, o, c.fn, c.arity)
           [] c.kind = "reduce" -> reduce(al, o, c.fn, c.arity, c.initialValue)
           [] c.kind = "some" -> some(al, o, c.fn, c.arity)
           [] c.kind = "every" -> every(al, o, c.fn, c.arity)
           [] OTHER -> find(al, o, c.fn, c.arity)
    ELSE CASE c.kind = "toArray" -> compileToArray(al, o)
           [] c.kind = "forEach" -> compileForEach(al, o, c.fn, c.arity)
           [] c.kind = "reduce" -> compileReduce(al, o, c.fn, c.arity, c.initialValue)
           [] c.kind = "some" -> compileSome(al, o, c.fn, c.arity)
           [] c.kind = "every" -> compileEvery(al, o, c.fn, c.arity)
           [] c.kind = "find" -> compileFind(al, o, c.fn, c.arity)
           [] OTHER -> compileCount(al, o)

\* a terminal: compile, run the unit once against the source
invoke(c) ==
  /\ runs < (IF version = "Stream" THEN MaxRuns ELSE 1)
  /\ runs > 0 => c = call
  /\ call' = c
  /\ out' = runUnit(compile(version, arrayLike, ops, c), source, cells)
  /\ cells' = out'.cells
  /\ prev' = out
  /\ runs' = runs + 1
  /\ UNCHANGED <<functionVars, version, source, arrayLike, ops, streams, last>>

ToArray == invoke(Call("toArray", "", 0, undefined))

ForEach == \E arity \in {1, 2} : invoke(Call("forEach", "sink", arity, undefined))

Reduce ==
  \E arity \in {2, 3}, initialValue \in {undefined, <<Seed>>} :
    invoke(Call("reduce", "sum", arity, initialValue))

Some == \E arity \in {1, 2} : invoke(Call("some", "gt1", arity, undefined))

Every == \E arity \in {1, 2} : invoke(Call("every", "gt1", arity, undefined))

Find == \E arity \in {1, 2} : invoke(Call("find", "gt1", arity, undefined))

Count == version = "StreamCompiler" /\ invoke(Call("count", "", 0, undefined))

Next ==
  \/ Transform
  \/ Filter
  \/ Range
  \/ ToArray
  \/ ForEach
  \/ Reduce
  \/ Some
  \/ Every
  \/ Find
  \/ Count

Spec == Init /\ [][Next]_vars

InitStream == InitOf("Stream")

NextStream ==
  \/ Map
  \/ Filter
  \/ Drop
  \/ Take
  \/ ToArray
  \/ ForEach
  \/ Reduce
  \/ Some
  \/ Every
  \/ Find

SpecStream == InitStream /\ [][NextStream]_vars

\* --- the same pipelines with callbacks that throw
TransformThrowing == version = "StreamCompiler" /\ append(TransformOp(Throwing, 1), 0)

FilterThrowing == append(FilterOp(Throwing, 1), 0)

ForEachThrowing == \E arity \in {1, 2} : invoke(Call("forEach", Throwing, arity, undefined))

ReduceThrowing ==
  \E arity \in {2, 3}, initialValue \in {undefined, <<Seed>>} :
    invoke(Call("reduce", Throwing, arity, initialValue))

SomeThrowing == \E arity \in {1, 2} : invoke(Call("some", Throwing, arity, undefined))

EveryThrowing == \E arity \in {1, 2} : invoke(Call("every", Throwing, arity, undefined))

FindThrowing == \E arity \in {1, 2} : invoke(Call("find", Throwing, arity, undefined))

NextThrowing ==
  \/ Next
  \/ TransformThrowing
  \/ FilterThrowing
  \/ ForEachThrowing
  \/ ReduceThrowing
  \/ SomeThrowing
  \/ EveryThrowing
  \/ FindThrowing

SpecThrowing == Init /\ [][NextThrowing]_vars

\* --- range operations with bounds around the limits of the 32-bit conversions
Wide ==
  { -1, 0, 1, pow2(Int32Bits - 1) - 1, pow2(Int32Bits - 1), pow2(Int32Bits - 1) + 1,
    pow2(Int32Bits), pow2(Int32Bits) + 1 }

InitRange ==
  /\ version = "Range"
  /\ source \in { consecutive(1, n) : n \in {1, pow2(Int32Bits - 1) + 1} }
  /\ arrayLike \in BOOLEAN
  /\ ops = <<>>
  /\ cells = <<>>
  /\ runs = 0
  /\ call = NoCall
  /\ out = startState(<<>>)
  /\ prev = startState(<<>>)
  /\ streams = <<>>
  /\ last = <<>>
  /\ NoSearch
  /\ NoClassifier
  /\ NoPipelines
  /\ NoProxy

WideRange ==
  \E start \in Wide, end \in {undefined} \cup { <<n>> : n \in Wide } :
    version = "Range" /\ append(RangeOp(start, end), 0)

NextRange ==
  \/ WideRange
  \/ ToArray

SpecRange == InitRange /\ [][NextRange]_vars

\* ============================================================================
\* The single-use, iterator-based Stream (Stream.ts 1-206) over createFusedIterator
\* ============================================================================
MaxStreams == 3

\* a JS value of this generation: a number, or an iterable of values
Atom(n) == [n |-> n, iterable |-> FALSE, items |-> <<>>]
Items(s) == [n |-> 0, iterable |-> TRUE, items |-> s]

\* stream/types (first generation): SKIP, DONE, the three kinds of Op
SKIP == [value |-> Atom(0), skip |-> TRUE]
DONE == [done |-> TRUE, value |-> Atom(0)]
FLATTEN_OP == [fn |-> "", kind |-> "flatten", cell |-> 0]
mapOp(fn) == [fn |-> fn, kind |-> "map", cell |-> 0]
filterOp(predicate, cell) == [fn |-> predicate, kind |-> "filter", cell |-> cell]

\* user callbacks of the pipelines explored:
\*   inc  = v => typeof v === 'number' ? v + 1 : v      pair = v => [v, v]
\*   idx  = (v, i) => i
\*   not1 = v => v !== 1                                idxOdd = (v, i) => i % 2 === 1
\*   drop = () => remaining-- <= 0                      take = () => remaining-- > 0
fnOf(fn, v, i) ==
  CASE fn = "inc" -> IF v.iterable THEN v ELSE Atom(v.n + 1)
    [] fn = "pair" -> Items(<<v, v>>)
    [] OTHER -> Atom(i)

predicateOf(predicate, v, i, remaining) ==
  CASE predicate = "not1" -> v # Atom(1)
    [] predicate = "idxOdd" -> i % 2 = 1
    [] predicate = "drop" -> remaining <= 0
    [] OTHER -> remaining > 0

hasRemaining(predicate) == predicate \in {"drop", "take"}

\* applyOpsInPlace(ops, initial, logicalIndex): the value after the ops, or SKIP;
\* h is the heap of closure variables, n the number of callback calls so far
RECURSIVE applyOpsFrom(_, _, _, _, _, _)
applyOpsFrom(o, k, value, logicalIndex, h, n) ==
  IF k > Len(o) THEN [calls |-> n, value |-> value, skip |-> FALSE, heap |-> h]
  ELSE IF o[k].kind = "map"
    THEN applyOpsFrom(o, k + 1, fnOf(o[k].fn, value, logicalIndex), logicalIndex, h, n + 1)
  ELSE LET c == o[k].cell
           ok == predicateOf(o[k].fn, value, logicalIndex, IF c = 0 THEN 0 ELSE h[c])
           h2 == IF hasRemaining(o[k].fn) THEN [h EXCEPT ![c] = @ - 1] ELSE h
       IN IF ok THEN applyOpsFrom(o, k + 1, value, logicalIndex, h2, n + 1)
          ELSE [calls |-> n + 1, value |-> SKIP.value, skip |-> TRUE, heap |-> h2]

applyOpsInPlace(o, initial, logicalIndex, h, n) == applyOpsFrom(o, 1, initial, logicalIndex, h, n)

\* splitIntoSegments(ops): the runs of map/filter ops between the flatten ops
RECURSIVE splitIntoSegments(_)
splitIntoSegments(o) ==
  IF o = <<>> THEN << <<>> >>
  ELSE LET segments == splitIntoSegments(SubSeq(o, 1, Len(o) - 1))
           op == o[Len(o)]
       IN IF op.kind = "flatten" THEN Append(segments, <<>>)
          ELSE [segments EXCEPT ![Len(segments)] = Append(@, op)]

\* --- createFusedIterator: base iterator, then per segment a mapFilterIterator, with a
\* flattenIterator between two segments. The state of the whole stack:
\*   pos, done      arrayBaseIterator / iterableBaseIterator / arrayIteratorFor
\*   logicalIndex   per segment, the counter of its mapFilterIterator
\*   sub            per flattenIterator: null, or the rest of the current sub-iterator
\*   reads          source elements read; calls: callback calls; returnCalls: calls of
\*                  the source iterator's return()
null == <<>>

createFusedIterator(o) ==
  LET segments == splitIntoSegments(o)
  IN [pos |-> 0, calls |-> 0,
      reads |-> 0,
      done |-> FALSE,
      returnCalls |-> 0, logicalIndex |-> [k \in 1..Len(segments) |-> 0],
      sub |-> [k \in 1..(Len(segments) - 1) |-> null]]

\* next() of the base iterator
baseNext(data, it) ==
  IF it.done THEN [done |-> TRUE, value |-> DONE.value, it |-> it]
  ELSE IF it.pos < Len(data)
    THEN [done |-> FALSE, value |-> data[it.pos + 1],
          it |-> [it EXCEPT !.pos = @ + 1, !.reads = @ + 1]]
  ELSE [done |-> TRUE, value |-> DONE.value, it |-> [it EXCEPT !.done = TRUE]]

\* next() of the mapFilterIterator of segment s, and of the flattenIterator after it
RECURSIVE mapFilterNext(_, _, _, _, _)
RECURSIVE flattenNext(_, _, _, _, _)
mapFilterNext(segments, s, data, it, h) ==
  LET base == baseNext(data, it)
      next == IF s = 1
                THEN [done |-> base.done, value |-> base.value, heap |-> h, it |-> base.it]
              ELSE flattenNext(segments, s - 1, data, it, h)
  IN IF next.done THEN next
     ELSE LET post == applyOpsInPlace(segments[s], next.value, next.it.logicalIndex[s],
                                      next.heap, next.it.calls)
              it2 == [next.it EXCEPT !.logicalIndex[s] = @ + 1, !.calls = post.calls]
          IN IF ~post.skip
               THEN [done |-> FALSE, value |-> post.value, heap |-> post.heap, it |-> it2]
             ELSE mapFilterNext(segments, s, data, it2, post.heap)

\* variant: the sub-iterator is dropped after its first element
flattenNextFirstOnly(segments, f, data, it, h) ==
  IF it.sub[f] = null
    THEN LET next == mapFilterNext(segments, f, data, it, h)
         IN IF next.done THEN next
            ELSE IF ~next.value.iterable
              THEN flattenNext(segments, f, data, next.it, next.heap)
            ELSE flattenNext(segments, f, data,
                             [next.it EXCEPT !.sub[f] = <<next.value.items>>], next.heap)
  ELSE LET rest == it.sub[f][1]
       IN IF rest # <<>>
            THEN [done |-> FALSE, value |-> Head(rest),
                  heap |-> h, it |-> [it EXCEPT !.sub[f] = null]]
          ELSE flattenNext(segments, f, data, [it EXCEPT !.sub[f] = null], h)

flattenNext(segments, f, data, it, h) ==
  IF it.sub[f] = null
    THEN LET next == mapFilterNext(segments, f, data, it, h)
         IN IF next.done THEN next
            ELSE IF ~next.value.iterable
              THEN flattenNext(segments, f, data, next.it, next.heap)
            ELSE flattenNext(segments, f, data,
                             [next.it EXCEPT !.sub[f] = <<next.value.items>>], next.heap)
  ELSE LET rest == it.sub[f][1]
       IN IF rest # <<>>
            THEN [done |-> FALSE, value |-> Head(rest),
                  heap |-> h, it |-> [it EXCEPT !.sub[f] = <<Tail(rest)>>]]
          ELSE flattenNext(segments, f, data, [it EXCEPT !.sub[f] = null], h)

\* next() / return() of the fused iterator
fusedNext(o, data, it, h) ==
  LET segments == splitIntoSegments(o)
  IN mapFilterNext(segments, Len(segments), data, it, h)

fusedReturn(isArray, it) ==
  [it EXCEPT !.done = TRUE, !.returnCalls = IF isArray THEN @ ELSE @ + 1]

\* --- the terminals of the single-use Stream: `for (const v of this)` over the stream's
\* own iterator; leaving the loop early calls this.return()
AlreadyConsumed == "Stream already consumed"

Result(kind) == [kind |-> kind, arr |-> <<>>, val |-> Atom(0), flag |-> FALSE, msg |-> ""]
NoValue == Result("undefined")
Values(a) == [Result("array") EXCEPT !.arr = a]
Value(v) == [Result("value") EXCEPT !.val = v]
Flag(b) == [Result("boolean") EXCEPT !.flag = b]
Raised(m) == [Result("throw") EXCEPT !.msg = m]

\* reducer = (acc, v) => v ; terminal predicate = v => v !== 1
reducerOf(acc, v) == v
terminalPredicate(v) == v # Atom(1)

loopState(it, h, c) ==
  [i |-> 0, started |-> c.initialValue # undefined, outcome |-> NoValue, out |-> <<>>, heap |-> h,
   it |-> it,
   log |-> <<>>,
   accumulated |-> IF c.initialValue = undefined THEN Atom(0) ELSE Atom(c.initialValue[1])]

\* the statements after the loop
afterLoop(c, r) ==
  CASE c.kind = "toArray" -> [r EXCEPT !.outcome = Values(r.out)]
    [] c.kind = "forEach" -> r
    [] c.kind = "reduce" ->
         [r EXCEPT !.outcome = IF r.started THEN Value(r.accumulated)
                                ELSE Raised(EmptyReduceError)]
    [] c.kind = "some" -> [r EXCEPT !.outcome = Flag(FALSE)]
    [] c.kind = "every" -> [r EXCEPT !.outcome = Flag(TRUE)]
    [] OTHER -> r

\* the loop body for one value v: << the loop state after it, whether it left the loop >>
forOfBody(c, r, v, isArray) ==
  LET called == [r EXCEPT !.log = Append(@, [v |-> v, i |-> r.i]), !.i = @ + 1]
      leaveWith(x) == << [called EXCEPT !.outcome = x, !.it = fusedReturn(isArray, @)], TRUE >>
  IN CASE c.kind = "toArray" -> << [r EXCEPT !.out = Append(@, v)], FALSE >>
       [] c.kind = "forEach" -> << called, FALSE >>
       [] c.kind = "reduce" ->
            IF r.started
              THEN << [called EXCEPT !.accumulated = reducerOf(@, v)], FALSE >>
            ELSE << [r EXCEPT !.accumulated = v, !.started = TRUE, !.i = @ + 1], FALSE >>
       [] c.kind = "some" ->
            IF terminalPredicate(v) THEN leaveWith(Flag(TRUE)) ELSE << called, FALSE >>
       [] c.kind = "every" ->
            IF ~terminalPredicate(v) THEN leaveWith(Flag(FALSE)) ELSE << called, FALSE >>
       [] OTHER ->
            IF terminalPredicate(v) THEN leaveWith(Value(v)) ELSE << called, FALSE >>

RECURSIVE forOfThis(_, _, _, _, _)
forOfContinue(c, o, data, isArray, after) ==
  IF after[2] THEN after[1] ELSE forOfThis(c, o, data, isArray, after[1])

forOfStep(c, o, data, isArray, r1, next) ==
  IF next.done THEN afterLoop(c, r1)
  ELSE forOfContinue(c, o, data, isArray, forOfBody(c, r1, next.value, isArray))

forOfNext(c, o, data, isArray, r, next) ==
  forOfStep(c, o, data, isArray, [r EXCEPT !.it = next.it, !.heap = next.heap], next)

forOfThis(c, o, data, isArray, r) ==
  forOfNext(c, o, data, isArray, r, fusedNext(o, data, r.it, r.heap))

\* --- the Stream objects and what is done to them
MaxIterOps == 3
MaxAttempts == 2

RECURSIVE atoms(_)
atoms(a) == IF a = <<>> THEN <<>> ELSE <<Atom(Head(a))>> \o atoms(Tail(a))

NestedSources ==
  { atoms(consecutive(1, n)) : n \in {0, MaxLen - 1} } \cup
  { << Items(atoms(<<1, 2>>)), Items(atoms(<<3>>)) >>,
    << Items(<<>>), Items(<< Items(atoms(<<1>>)), Atom(2) >>) >>,
    << Atom(1), Items(atoms(<<2>>)) >> }

newStream(o) == [ops |-> o, used |-> FALSE, iter |-> null]

NoAttempt ==
  [kind |-> "", outcome |-> NoValue, log |-> <<>>, used |-> FALSE, on |-> 0,
   consumed |-> FALSE]

InitIterator ==
  /\ version = "Iterator"
  /\ source \in NestedSources
  /\ arrayLike \in BOOLEAN
  /\ ops = <<>>
  /\ cells = <<>>
  /\ runs = 0
  /\ call = NoCall
  /\ out = startState(<<>>)
  /\ prev = startState(<<>>)
  /\ streams = << newStream(<<>>) >>
  /\ last = NoAttempt
  /\ NoSearch
  /\ NoClassifier
  /\ NoPipelines
  /\ NoProxy

\* variant: the operations are pushed onto the receiver's own list (this.#ops.push(op))
chainInPlace(k, added, remaining) ==
  /\ runs = 0
  /\ k = Len(streams)
  /\ Len(streams) < MaxStreams
  /\ Len(streams[k].ops) + Len(added) <= MaxIterOps
  /\ streams' = Append([streams EXCEPT ![k].ops = @ \o added],
                       newStream(streams[k].ops \o added))
  /\ cells' = cells \o remaining
  /\ UNCHANGED <<functionVars, version, source, arrayLike, ops, runs, call, out, prev, last>>

\* a chain method on streams[k]: new Stream(this.#source, [...this.#ops, ...added]);
\* explored for one chain stream(source).m1().m2(), built before anything is consumed
chain(k, added, remaining) ==
  /\ runs = 0
  /\ k = Len(streams)
  /\ Len(streams) < MaxStreams
  /\ Len(streams[k].ops) + Len(added) <= MaxIterOps
  /\ streams' = Append(streams, newStream(streams[k].ops \o added))
  /\ cells' = cells \o remaining
  /\ UNCHANGED <<functionVars, version, source, arrayLike, ops, runs, call, out, prev, last>>

IterMap == \E k \in 1..Len(streams), fn \in {"inc", "idx"} : chain(k, <<mapOp(fn)>>, <<>>)

IterFilter == \E k \in 1..Len(streams) : chain(k, <<filterOp("not1", 0)>>, <<>>)

IterDrop ==
  \E k \in 1..Len(streams), n \in 1..MaxBound :
    chain(k, <<filterOp("drop", Len(cells) + 1)>>, <<n>>)

IterTake ==
  \E k \in 1..Len(streams), n \in 1..MaxBound :
    chain(k, <<filterOp("take", Len(cells) + 1)>>, <<n>>)

IterFlatMap == \E k \in 1..Len(streams) : chain(k, <<mapOp("pair"), FLATTEN_OP>>, <<>>)

IterFlatten == \E k \in 1..Len(streams) : chain(k, <<FLATTEN_OP>>, <<>>)

\* #ensureIterator
ensureIterator(stream) ==
  IF stream.iter = null THEN createFusedIterator(stream.ops) ELSE stream.iter[1]

attempt(kind, k, outcome, log) ==
  [kind |-> kind, outcome |-> outcome, log |-> log,
   used |-> streams[k].used,
   on |-> k, consumed |-> streams[k].used \/ streams[k].iter # null]

\* a terminal on streams[k]: #ensureUsedOnlyOnce, then the loop
terminal(k, c) ==
  /\ runs < MaxAttempts
  /\ runs' = runs + 1
  /\ IF streams[k].used \/ streams[k].iter # null
       THEN /\ last' = attempt(c.kind, k, Raised(AlreadyConsumed), <<>>)
            /\ UNCHANGED <<streams, cells>>
     ELSE LET r == forOfThis(c, streams[k].ops, source, arrayLike,
                             loopState(ensureIterator(streams[k]), cells, c))
          IN /\ streams' = [streams EXCEPT ![k].used = TRUE, ![k].iter = <<r.it>>]
             /\ cells' = r.heap
             /\ last' = attempt(c.kind, k, r.outcome, r.log)
  /\ UNCHANGED <<functionVars, version, source, arrayLike, ops, call, out, prev>>

IterToArray == \E k \in 1..Len(streams) : terminal(k, Call("toArray", "", 0, undefined))

IterForEach == \E k \in 1..Len(streams) : terminal(k, Call("forEach", "sink", 2, undefined))

IterReduce ==
  \E k \in 1..Len(streams), initialValue \in {undefined, <<Seed>>} :
    terminal(k, Call("reduce", "current", 3, initialValue))

IterSome == \E k \in 1..Len(streams) : terminal(k, Call("some", "not1", 2, undefined))

IterEvery == \E k \in 1..Len(streams) : terminal(k, Call("every", "not1", 2, undefined))

IterFind == \E k \in 1..Len(streams) : terminal(k, Call("find", "not1", 2, undefined))

\* [Symbol.iterator](): what `for (const v of stream)` calls first
SymbolIterator ==
  \E k \in 1..Len(streams) :
    /\ runs < MaxAttempts
    /\ runs' = runs + 1
    /\ streams' = [streams EXCEPT ![k].iter = <<ensureIterator(streams[k])>>]
    /\ last' = attempt("iterator", k, NoValue, <<>>)
    /\ UNCHANGED <<functionVars, version, source, arrayLike, ops, cells, call, out, prev>>

\* next()
IterNext ==
  \E k \in 1..Len(streams) :
    LET next == fusedNext(streams[k].ops, source, ensureIterator(streams[k]), cells)
    IN /\ runs < MaxAttempts
       /\ runs' = runs + 1
       /\ streams' = [streams EXCEPT ![k].iter = <<next.it>>]
       /\ cells' = next.heap
       /\ last' = attempt("next", k, IF next.done THEN NoValue ELSE Value(next.value), <<>>)
       /\ UNCHANGED <<functionVars, version, source, arrayLike, ops, call, out, prev>>

\* return()
IterReturn ==
  \E k \in 1..Len(streams) :
    /\ runs < MaxAttempts
    /\ runs' = runs + 1
    /\ streams' = [streams EXCEPT
                     ![k].iter = <<fusedReturn(arrayLike, ensureIterator(streams[k]))>>]
    /\ last' = attempt("return", k, NoValue, <<>>)
    /\ UNCHANGED <<functionVars, version, source, arrayLike, ops, cells, call, out, prev>>

NextIterator ==
  \/ IterMap
  \/ IterFilter
  \/ IterDrop
  \/ IterTake
  \/ IterFlatMap
  \/ IterFlatten
  \/ IterToArray
  \/ IterForEach
  \/ IterReduce
  \/ IterSome
  \/ IterEvery
  \/ IterFind
  \/ SymbolIterator
  \/ IterNext
  \/ IterReturn

SpecIterator == InitIterator /\ [][NextIterator]_vars

\* ============================================================================
\* Text search: Stream.filterText (Stream.ts 322-382), the lib helpers and
\* the demo's manualSearch
\* ============================================================================
\* A string is a sequence of characters; a query holds letters and blanks.
MaxQuery == 7

Blank == " "
QueryLetters == {"a", "B"}

\* String.prototype.toLowerCase on one character; the regexes carry the `i` flag
lower(c) ==
  CASE c = "A" -> "a"
    [] c = "B" -> "b"
    [] OTHER -> c

\* a field value: a string, or something that is not one (null, undefined, a number)
String(chars) == [chars |-> chars, typeof |-> "string"]
NotAString == [chars |-> <<>>, typeof |-> "object"]

\* query.split(/\s+/).filter((t) => t.length > 0)
RECURSIVE split(_, _, _)
split(q, k, token) ==
  IF k > Len(q) THEN <<token>>
  ELSE IF q[k] = Blank
    THEN IF k > 1 /\ q[k - 1] = Blank
           THEN split(q, k + 1, token)
           ELSE <<token>> \o split(q, k + 1, <<>>)
    ELSE split(q, k + 1, Append(token, q[k]))

tokenize(q) == SelectSeq(split(q, 1, <<>>), LAMBDA t : Len(t) > 0)

notSpecificEnough(tokens) ==
  ~(Len(tokens) > 1 \/ \E k \in 1..Len(tokens) : Len(tokens[k]) > 1)

\* tokens.sort((a, b) => b.length - a.length): Array.prototype.sort is stable
RECURSIVE sortByLength(_)
sortByLength(tokens) ==
  IF tokens = <<>> THEN <<>>
  ELSE LET t == tokens[Len(tokens)]
           front == sortByLength(SubSeq(tokens, 1, Len(tokens) - 1))
           keep == Cardinality({k \in 1..Len(front) : Len(front[k]) >= Len(t)})
       IN SubSeq(front, 1, keep) \o <<t>> \o SubSeq(front, keep + 1, Len(front))

\* new RegExp((anchored ? '^' : '') + escapeRegExp(t), 'i'); the tokens here hold
\* letters only, which escapeRegExp leaves as they are
RegExp(anchored, t) == [t |-> t, anchored |-> anchored]

buildRegExps(tokens) ==
  [pos \in 1..Len(tokens) |->
     RegExp(~(pos - 1 > 0 \/ Len(tokens[pos]) > 3), tokens[pos])]

matchesAt(re, v, at) ==
  /\ at + Len(re.t) <= Len(v)
  /\ \A k \in 1..Len(re.t) : lower(v[at + k]) = lower(re.t[k])

\* RegExp.prototype.test
test(re, v) ==
  IF re.anchored THEN matchesAt(re, v, 0) ELSE \E at \in 0..Len(v) : matchesAt(re, v, at)

\* `value.key` / `value["key"]`: undefined when the element has no such property
accessor(element, key) == IF key \in DOMAIN element THEN element[key] ELSE NotAString

\* let vN = accessor; if (typeof vN !== 'string') { vN = '' }
fieldVars(element, keys) ==
  [i \in 1..Len(keys) |->
     LET v == accessor(element, keys[i]) IN IF v.typeof # "string" THEN <<>> ELSE v.chars]

anyField(re, vs) == \E i \in 1..Len(vs) : test(re, vs[i])

\* variant: the general case asks for one matching token instead of all of them
compiledAnyToken(element, rs, keys) ==
  LET vs == fieldVars(element, keys)
  IN IF Len(rs) = 1
       THEN anyField(rs[1], vs)
       ELSE IF Len(rs) = 2
         THEN IF ~anyField(rs[1], vs) THEN FALSE
              ELSE IF ~anyField(rs[2], vs) THEN FALSE
              ELSE TRUE
         ELSE \E i \in 1..Len(rs) : anyField(rs[i], vs)

\* the function compiled by filterText: new Function('value', 'rs', body)
compiled(element, rs, keys) ==
  LET vs == fieldVars(element, keys)
  IN IF Len(rs) = 1
       THEN anyField(rs[1], vs)
       ELSE IF Len(rs) = 2
         THEN IF ~anyField(rs[1], vs) THEN FALSE
              ELSE IF ~anyField(rs[2], vs) THEN FALSE
              ELSE TRUE
         ELSE \A i \in 1..Len(rs) : anyField(rs[i], vs)

\* tokens.map((t) => new RegExp((t.length < 4 ? '^' : '') + escapeRegExp(t), 'i'))
tokenRegExps(tokens) ==
  [k \in 1..Len(tokens) |-> RegExp(Len(tokens[k]) < 4, tokens[k])]

\* Stream.filterText: the predicate of the filter it appends, applied to one element
filterText(q, keys, element) ==
  LET tokens == tokenize(q)
  IN IF Len(keys) = 0 THEN FALSE
     ELSE IF ~(\E k \in 1..Len(tokens) : Len(tokens[k]) > 2) THEN FALSE
     ELSE compiled(element, tokenRegExps(sortByLength(tokens)), keys)

\* StreamCompiler.#buildFilterTextBody: the body shown for a filterText op
buildFilterTextBody(element, rs, keys) ==
  LET vs == fieldVars(element, keys)
  IN IF Len(rs) = 1
       THEN anyField(rs[1], vs)
       ELSE \A i \in 1..Len(rs) : anyField(rs[i], vs)

\* manualSearch(data, query): the elements kept, in order
manualSearch(data, q) ==
  LET tokens == tokenize(q)
  IN IF notSpecificEnough(tokens) THEN <<>>
     ELSE LET regexes == buildRegExps(sortByLength(tokens))
              vs(u) == fieldVars(u, <<"name", "emailAddress">>)
          IN SelectSeq(data, LAMBDA u : \A r \in 1..Len(regexes) : anyField(regexes[r], vs(u)))

\* elements of the data set (FixtureModel: name, emailAddress; emailAddress may be
\* null or absent)
Names ==
  { String(<<>>), String(<<"A", "b">>), String(<<"b", "A">>), String(<<"B", "a", "b", "A">>),
    String(<<"b", "A", "b", "a", "B">>) }
EmailAddresses == { NotAString, String(<<"b", "a">>), String(<<"A", "a", "B", "a">>) }
Elements ==
  { [name |-> n, emailAddress |-> e] : n \in Names, e \in EmailAddresses }
    \cup { [name |-> n] : n \in Names }
FieldLists == { <<>>, <<"name">>, <<"name", "emailAddress">> }

search(q) ==
  /\ found' = filterText(q, fields, user)
  /\ manual' = (manualSearch(<<user>>, q) # <<>>)

InitSearch ==
  /\ version = "Search"
  /\ source = <<>>
  /\ arrayLike = TRUE
  /\ ops = <<>>
  /\ cells = <<>>
  /\ runs = 0
  /\ call = NoCall
  /\ out = startState(<<>>)
  /\ prev = startState(<<>>)
  /\ streams = <<>>
  /\ last = <<>>
  /\ query = <<>>
  /\ fields \in FieldLists
  /\ user \in Elements
  /\ found = filterText(<<>>, fields, user)
  /\ manual = (manualSearch(<<user>>, <<>>) # <<>>)
  /\ NoClassifier
  /\ NoPipelines
  /\ NoProxy

pipelineVars == <<version, source, arrayLike, ops, cells, runs, call, out, prev, streams, last>>

\* useSearch(data, query) after one more character has been typed: both searches run
Type ==
  \E c \in QueryLetters \cup {Blank} :
    /\ version = "Search"
    /\ Len(query) < MaxQuery
    /\ query' = Append(query, c)
    /\ search(query')
    /\ UNCHANGED <<pipelineVars, classifierVars, pipelines, proxyVars, fields, user>>

NextSearch == Type

SpecSearch == InitSearch /\ [][NextSearch]_vars

\* ============================================================================
\* The source classifier: isArrayLike (stream/isArrayLike.ts 14-33)
\* ============================================================================
MaxLength == 2

\* a JS value read from `length`: a number (finite ones counted in halves, so that
\* 1.5 is one of them), a string, or undefined
Number(kind, halves) == [kind |-> kind, typeof |-> "number", halves |-> halves]
NaN == Number("NaN", 0)
Infinity == Number("Infinity", 0)
MinusInfinity == Number("-Infinity", 0)
Finite(n) == Number("finite", 2 * n)
Undefined == [kind |-> "", typeof |-> "undefined", halves |-> 0]
Text == [kind |-> "", typeof |-> "string", halves |-> 0]

isFinite(x) == x.kind = "finite"
atLeast0(x) == (x.kind = "finite" /\ x.halves >= 0) \/ x.kind = "Infinity"
is0(x) == x.kind = "finite" /\ x.halves = 0

\* a candidate: its class (or, for a primitive, its type), what reading `length` gives
\* and whether `0 in candidate` holds
Candidate(class, length, has0) == [class |-> class, length |-> length, has0 |-> has0]

TypedArrays == {"Uint8Array", "Float64Array"}
Primitives == {"null", "undefined", "number", "boolean", "symbol"}

Candidates ==
  { Candidate("Array", Finite(n), has0) : n \in 0..MaxLength, has0 \in BOOLEAN } \cup
  { Candidate(class, Finite(n), n > 0) : class \in TypedArrays \cup {"string"}, n \in 0..MaxLength } \cup
  { Candidate("DataView", Undefined, FALSE) } \cup
  { Candidate(class, Undefined, FALSE) : class \in Primitives } \cup
  { Candidate("Function", Finite(n), FALSE) : n \in 0..MaxLength } \cup
  { Candidate(class, length, has0) :
      class \in {"Object", "Set"},
      length \in {Undefined, Text, NaN, Infinity, MinusInfinity}
                   \cup { Number("finite", h) : h \in (-2)..(2 * MaxLength) },
      has0 \in BOOLEAN }

returns(result, log) == [result |-> result, accesses |-> log]

\* variant: any finite length >= 0 will do, index 0 is not looked at
isArrayLikeAnyLength(c) ==
  IF c.class = "Array" THEN returns(TRUE, <<"Array.isArray">>)
  ELSE IF c.class \in TypedArrays \cup {"DataView"}
    THEN returns(c.class # "DataView", <<"Array.isArray", "ArrayBuffer.isView", "instanceof">>)
  ELSE IF c.class = "string"
    THEN returns(TRUE, <<"Array.isArray", "ArrayBuffer.isView", "typeof">>)
  ELSE LET log == <<"Array.isArray", "ArrayBuffer.isView", "typeof">>
           length == IF c.class \in {"null", "undefined"} THEN Undefined ELSE c.length
       IN IF length.typeof = "number"
            THEN IF isFinite(length) /\ atLeast0(length)
                   THEN returns(TRUE, log \o <<"get length", "get length">>)
                 ELSE returns(FALSE, log \o <<"get length", "get length">>)
          ELSE returns(FALSE, log \o <<"get length">>)

isArrayLike(c) ==
  IF c.class = "Array" THEN returns(TRUE, <<"Array.isArray">>)
  ELSE IF c.class \in TypedArrays \cup {"DataView"}
    THEN returns(c.class # "DataView", <<"Array.isArray", "ArrayBuffer.isView", "instanceof">>)
  ELSE IF c.class = "string"
    THEN returns(TRUE, <<"Array.isArray", "ArrayBuffer.isView", "typeof">>)
  ELSE LET log == <<"Array.isArray", "ArrayBuffer.isView", "typeof">>
           \* arrayLike?.length: undefined for null and undefined
           length == IF c.class \in {"null", "undefined"} THEN Undefined ELSE c.length
       IN IF length.typeof = "number"
            THEN IF isFinite(length) /\ atLeast0(length)
                   THEN IF is0(length)
                          THEN returns(TRUE, log \o <<"get length", "get length">>)
                        ELSE returns(c.has0, log \o <<"get length", "get length", "has 0">>)
                 ELSE returns(FALSE, log \o <<"get length", "get length">>)
          ELSE returns(FALSE, log \o <<"get length">>)

InitClassifier ==
  /\ version = "isArrayLike"
  /\ source = <<>>
  /\ arrayLike = TRUE
  /\ ops = <<>>
  /\ cells = <<>>
  /\ runs = 0
  /\ call = NoCall
  /\ out = startState(<<>>)
  /\ prev = startState(<<>>)
  /\ streams = <<>>
  /\ last = <<>>
  /\ NoSearch
  /\ candidate \in Candidates
  /\ verdict = <<>>
  /\ accesses = <<>>
  /\ NoPipelines
  /\ NoProxy

\* isArrayLike(candidate); the call writes nothing to the candidate
Classify ==
  /\ version = "isArrayLike"
  /\ verdict = <<>>
  /\ verdict' = << isArrayLike(candidate).result >>
  /\ accesses' = isArrayLike(candidate).accesses
  /\ UNCHANGED <<pipelineVars, searchVars, pipelines, proxyVars, candidate>>

NextClassifier == Classify

SpecClassifier == InitClassifier /\ [][NextClassifier]_vars

\* ============================================================================
\* The pipeline values of the Stream class and their cached classification
\* (Stream.ts 254-272; chain methods 281-391; terminals 399-528)
\* ============================================================================
MaxPipelines == 3
MaxTerminals == 2

\* a Stream object: #ops (their number) and #isArrayLike (null, or << the boolean >>);
\* `classified` counts the isArrayLike(#source) calls this object made and `skeletons`
\* lists the loop skeleton each of its terminals emitted
newPipeline(n) == [ops |-> n, isArrayLike |-> null, classified |-> 0, skeletons |-> <<>>]

got(p, value, log) == [value |-> value, accesses |-> log, pipeline |-> p]

\* variant: the getter classifies the source on every read
getArrayLikeUncached(p, c) ==
  got([p EXCEPT !.classified = @ + 1], isArrayLike(c).result, isArrayLike(c).accesses)

\* get #arrayLike()
getArrayLike(p, c) ==
  IF p.isArrayLike = null
    THEN got([p EXCEPT !.isArrayLike = << isArrayLike(c).result >>, !.classified = @ + 1],
             isArrayLike(c).result, isArrayLike(c).accesses)
    ELSE got(p, p.isArrayLike[1], <<>>)

\* how often the text of a terminal reads this.#arrayLike: toArray reads it for the
\* allocation of `result` and again for the loop, the other terminals once
readsOf(kind) == IF kind = "toArray" THEN 2 ELSE 1

\* a terminal of the Stream class, as far as the classification goes: the reads of
\* the getter, then the skeleton the last read selects
RECURSIVE readArrayLike(_, _, _, _)
readArrayLike(p, c, n, log) ==
  IF n = 1 THEN got(getArrayLike(p, c).pipeline, getArrayLike(p, c).value,
                    log \o getArrayLike(p, c).accesses)
  ELSE readArrayLike(getArrayLike(p, c).pipeline, c, n - 1, log \o getArrayLike(p, c).accesses)

skeletonOf(al) == IF al THEN "emitArrayLoop" ELSE "emitIterableLoop"

terminalOn(p, c, kind) ==
  got([readArrayLike(p, c, readsOf(kind), <<>>).pipeline
         EXCEPT !.skeletons = Append(@, skeletonOf(readArrayLike(p, c, readsOf(kind), <<>>).value))],
      readArrayLike(p, c, readsOf(kind), <<>>).value,
      readArrayLike(p, c, readsOf(kind), <<>>).accesses)

InitPipeline ==
  /\ version = "Pipeline"
  /\ source = <<>>
  /\ arrayLike = TRUE
  /\ ops = <<>>
  /\ cells = <<>>
  /\ runs = 0
  /\ call = NoCall
  /\ out = startState(<<>>)
  /\ prev = startState(<<>>)
  /\ streams = <<>>
  /\ last = <<>>
  /\ NoSearch
  /\ candidate \in Candidates
  /\ verdict = <<>>
  /\ accesses = <<>>
  /\ pipelines = << newPipeline(0) >>
  /\ NoProxy

\* map / filter / drop / take / filterText on the k-th pipeline value:
\* new Stream(this.#source, [...this.#ops, op])
PipelineChain ==
  \E k \in 1..Len(pipelines) :
    /\ version = "Pipeline"
    /\ Len(pipelines) < MaxPipelines
    /\ pipelines' = Append(pipelines, newPipeline(pipelines[k].ops + 1))
    /\ UNCHANGED <<pipelineVars, searchVars, classifierVars, proxyVars>>

\* a terminal on the k-th pipeline value
PipelineTerminal ==
  \E k \in 1..Len(pipelines), kind \in {"toArray", "forEach", "reduce", "some", "every", "find"} :
    /\ version = "Pipeline"
    /\ Len(pipelines[k].skeletons) < MaxTerminals
    /\ pipelines' = [pipelines EXCEPT ![k] = terminalOn(@, candidate, kind).pipeline]
    /\ verdict' = << terminalOn(pipelines[k], candidate, kind).value >>
    /\ accesses' = accesses \o terminalOn(pipelines[k], candidate, kind).accesses
    /\ UNCHANGED <<pipelineVars, searchVars, proxyVars, candidate>>

NextPipeline ==
  \/ PipelineChain
  \/ PipelineTerminal

SpecPipeline == InitPipeline /\ [][NextPipeline]_vars


\* ============================================================================
\* TypedArrayProxy (TypedArrayProxy.ts 46-210): one proxy object and one
\* currentIndex shared by every iteration over the same TypedArrayProxy
\* ============================================================================
MaxRows == 3
MaxIterations == 2

\* the predicates handed to filter() and filteredIterator(); each reads the field `id`
\* of the item it is given
Predicates == {"isOdd", "any"}

\* the `get` trap of the proxy for a known field:
\* this.rawResponse.data[this.currentIndex]?.[fieldIndex] ?? null
proxyGet(data, currentIndex) ==
  IF currentIndex + 1 \in 1..Len(data) THEN << data[currentIndex + 1] >> ELSE null

passes(predicate, id) ==
  IF predicate = "isOdd" THEN id # null /\ id[1] % 2 = 1 ELSE TRUE

\* materializeItem(index): a new object holding the fields of data[index]
materializeItem(data, index) == [id |-> data[index + 1]]

\* at(index)
proxyAt(data, index) ==
  IF index < 0 \/ index >= Len(data) THEN undefined ELSE << materializeItem(data, index) >>

\* toArray(): data.map((_, index) => this.materializeItem(index))
proxyToArray(data) == [index \in 1..Len(data) |-> materializeItem(data, index - 1)]

\* filter(predicate): for every row, currentIndex = i, then predicate(this.proxy), then
\* the materialized copy of the rows that passed; the indexes kept, in order
RECURSIVE filterFrom(_, _, _, _)
filterFrom(data, predicate, i, result) ==
  IF i < Len(data)
    THEN filterFrom(data, predicate, i + 1,
                    IF passes(predicate, proxyGet(data, i))
                      THEN Append(result, materializeItem(data, i)) ELSE result)
  ELSE result

proxyFilter(data, predicate) == filterFrom(data, predicate, 0, <<>>)

\* where a loop `for (i = 0; i < data.length; i++) { this.currentIndex = i ... }` that
\* ran to its end leaves currentIndex
afterFullLoop(data, currentIndex, from) == IF from < Len(data) THEN Len(data) - 1 ELSE currentIndex

\* a generator object made by [Symbol.iterator]() or filteredIterator(predicate): `i` is
\* the row its loop tries next, `row` the row of its latest yield (-1 before the first),
\* `visited` the rows its loop over the data has set currentIndex to
newIteration(kind, predicate) ==
  [kind |-> kind, i |-> 0, done |-> FALSE, predicate |-> predicate, row |-> -1, visited |-> <<>>]

resumed(iteration, currentIndex) == [currentIndex |-> currentIndex, iteration |-> iteration]

\* next() on a generator of [Symbol.iterator]: i < data.length ? (currentIndex = i; yield)
iteratorNext(it, data, currentIndex) ==
  IF it.i < Len(data)
    THEN resumed([it EXCEPT !.i = @ + 1, !.row = it.i, !.visited = Append(@, it.i)], it.i)
  ELSE resumed([it EXCEPT !.done = TRUE], currentIndex)

\* next() on a generator of filteredIterator: `for (const item of this)` advances an
\* inner [Symbol.iterator] generator until predicate(item) holds for the row it set
RECURSIVE filteredNext(_, _, _)
filteredNext(it, data, currentIndex) ==
  IF it.i < Len(data)
    THEN IF passes(it.predicate, proxyGet(data, it.i))
           THEN resumed([it EXCEPT !.i = @ + 1, !.row = it.i, !.visited = Append(@, it.i)], it.i)
         ELSE filteredNext([it EXCEPT !.i = @ + 1, !.visited = Append(@, it.i)], data, it.i)
  ELSE resumed([it EXCEPT !.done = TRUE], currentIndex)

generatorNext(it, data, currentIndex) ==
  IF it.kind = "filteredIterator" THEN filteredNext(it, data, currentIndex)
  ELSE iteratorNext(it, data, currentIndex)

\* the state of one TypedArrayProxy: `op` is the latest call and `before` the value of
\* currentIndex when it was made; `observed` the latest read of a field of a yielded
\* proxy; `result` what the latest materializing call returned
newProxy ==
  [op |-> "new", result |-> <<>>, currentIndex |-> 0, iterations |-> <<>>,
   before |-> 0, observed |-> <<>>]

did(p, op) == [p EXCEPT !.op = op, !.before = p.currentIndex]

InitProxy ==
  /\ version = "TypedArrayProxy"
  /\ source = <<>>
  /\ arrayLike = TRUE
  /\ ops = <<>>
  /\ cells = <<>>
  /\ runs = 0
  /\ call = NoCall
  /\ out = startState(<<>>)
  /\ prev = startState(<<>>)
  /\ streams = <<>>
  /\ last = <<>>
  /\ NoSearch
  /\ NoClassifier
  /\ NoPipelines
  /\ rows \in { consecutive(1, n) : n \in 0..MaxRows }
  /\ proxy = newProxy

proxyStep(p) ==
  /\ version = "TypedArrayProxy"
  /\ proxy' = p
  /\ UNCHANGED <<pipelineVars, searchVars, classifierVars, pipelines, rows>>

\* proxy[Symbol.iterator](): a generator object; no line of its body runs before next()
ProxyIterate ==
  /\ version = "TypedArrayProxy"
  /\ Len(proxy.iterations) < MaxIterations
  /\ proxyStep([did(proxy, "iterator")
                  EXCEPT !.iterations = Append(@, newIteration("iterator", ""))])

\* proxy.filteredIterator(predicate)
ProxyFilteredIterator ==
  \E predicate \in Predicates :
    /\ version = "TypedArrayProxy"
    /\ Len(proxy.iterations) < MaxIterations
    /\ proxyStep([did(proxy, "filteredIterator")
                    EXCEPT !.iterations = Append(@, newIteration("filteredIterator", predicate))])

\* next() on the k-th generator
ProxyNext ==
  \E k \in 1..Len(proxy.iterations) :
    /\ version = "TypedArrayProxy"
    /\ ~proxy.iterations[k].done
    /\ proxyStep([did(proxy, "next")
                    EXCEPT !.currentIndex =
                             generatorNext(proxy.iterations[k], rows, proxy.currentIndex).currentIndex,
                           !.iterations[k] =
                             generatorNext(proxy.iterations[k], rows, proxy.currentIndex).iteration])

\* the consumer of the k-th iteration reads the field `id` of the proxy its latest
\* next() yielded, before it calls next() again
ProxyRead ==
  \E k \in 1..Len(proxy.iterations) :
    /\ version = "TypedArrayProxy"
    /\ ~proxy.iterations[k].done
    /\ proxy.iterations[k].row >= 0
    /\ proxyStep([did(proxy, "read")
                    EXCEPT !.observed = [id |-> proxyGet(rows, proxy.currentIndex),
                                         row |-> proxy.iterations[k].row, of |-> k]])

\* proxy.at(index)
ProxyAt ==
  \E index \in -1..MaxRows :
    /\ version = "TypedArrayProxy"
    /\ proxyStep([did(proxy, "at")
                    EXCEPT !.result = [index |-> index, value |-> proxyAt(rows, index), of |-> "at"]])

\* proxy.toArray()
ProxyToArray ==
  /\ version = "TypedArrayProxy"
  /\ proxyStep([did(proxy, "toArray")
                  EXCEPT !.result = [index |-> 0, value |-> proxyToArray(rows), of |-> "toArray"]])

\* proxy.filter(predicate)
ProxyFilter ==
  \E predicate \in Predicates :
    /\ version = "TypedArrayProxy"
    /\ proxyStep([did(proxy, "filter")
                    EXCEPT !.currentIndex = afterFullLoop(rows, proxy.currentIndex, 0),
                           !.result = [index |-> 0, value |-> proxyFilter(rows, predicate),
                                       of |-> predicate]])

NextProxy ==
  \/ ProxyIterate
  \/ ProxyFilteredIterator
  \/ ProxyNext
  \/ ProxyRead
  \/ ProxyAt
  \/ ProxyToArray
  \/ ProxyFilter

SpecProxy == InitProxy /\ [][NextProxy]_vars


\* ================================================================= claims
hasRange(o) == \E k \in 1..Len(o) : o[k].kind = "range"
ran(kind) == runs >= 1 /\ call.kind = kind

\* --- reference: one unfused pass per operation over a whole array
\* an element is <<value, position in the source>>
RECURSIVE withPositions(_, _)
withPositions(arr, n) ==
  IF n = 0 THEN <<>> ELSE Append(withPositions(arr, n - 1), <<arr[n], n - 1>>)

RECURSIVE valuesOf(_, _)
valuesOf(pairs, n) ==
  IF n = 0 THEN <<>> ELSE Append(valuesOf(pairs, n - 1), pairs[n][1])

\* the index handed to a callback: the position in the pass (Array.prototype.map /
\* filter) when byPass, the position in the source otherwise
RECURSIVE refPass(_, _, _, _)
refPass(op, pairs, n, byPass) ==
  IF n = 0 THEN <<>>
  ELSE LET before == refPass(op, pairs, n - 1, byPass)
           e == pairs[n]
           i == IF byPass THEN n - 1 ELSE e[2]
       IN IF op.kind = "filter"
            THEN (IF callFilter(op.fn, e[1], i, 0) THEN Append(before, e) ELSE before)
            ELSE Append(before, <<callMap(op.fn, e[1], i), e[2]>>)

RECURSIVE refPasses(_, _, _, _)
refPasses(o, k, pairs, byPass) ==
  IF k > Len(o) THEN pairs
  ELSE refPasses(o, k + 1, refPass(o[k], pairs, Len(pairs), byPass), byPass)

refToArray(o, data, byPass) ==
  LET pairs == refPasses(o, 1, withPositions(data, Len(data)), byPass)
  IN valuesOf(pairs, Len(pairs))

\* C1 (as stated): toArray of a transform/filter pipeline equals the unfused reference
\* passes, each callback called with the value and its index in that pass.
C1_FusionEqualsArrayPasses ==
  (ran("toArray") /\ ~hasRange(ops))
    => out.outcome = RetArray(refToArray(ops, source, TRUE))

\* C1 (amended): toArray of a transform/filter pipeline equals the unfused reference
\* passes in which each callback is called with the value and the position of the
\* element in the source, on the indexed and on the for...of skeleton.
C1_FusionEqualsPositionalPasses ==
  (ran("toArray") /\ ~hasRange(ops))
    => out.outcome = RetArray(refToArray(ops, source, FALSE))

\* a filter that rejected the first element, followed by an index-reading transform
C1_Witness ==
  /\ ran("toArray")
  /\ Len(ops) = 2
  /\ ops[1] = FilterOp("isOdd", 1)
  /\ ops[2] = TransformOp("addIdx", 2)
  /\ source = <<2, 3, 4>>
  /\ out.outcome = RetArray(<<4>>)

\* --- the chain methods of the range family (drop(n) = range(n), take(n) = range(0, n))
drop(n) == RangeOp(n, undefined)
take(n) == RangeOp(0, <<n>>)

firstN(arr, n) == SubSeq(arr, 1, Min(n, Len(arr)))

\* C2: filter(p).take(k).toArray() is the first k elements of the source that satisfy
\* p, in source order; k = 0 gives the empty array, k above the number of matches all.
C2_TakeAfterFilter ==
  \A k \in 0..MaxBound :
    (ran("toArray") /\ Len(ops) = 2 /\ ops[1].kind = "filter" /\ ops[2] = take(k))
      => out.outcome = RetArray(firstN(refToArray(<<ops[1]>>, source, TRUE), k))

\* C3: without filters, drop(a).take(b) on a source of length n yields the elements at
\* positions [a, min(a + b, n)), for every a >= 0 and b >= 0.
C3_DropTakeIsSlice ==
  \A a \in 0..MaxBound, b \in 0..MaxBound :
    (ran("toArray") /\ ops = <<drop(a), take(b)>>)
      => out.outcome = RetArray(SubSeq(source, a + 1, Min(a + b, Len(source))))

\* C4: a pipeline with a filter and a range whose start is > 0 can be built, and every
\* terminal on it throws the usage error naming range(start > 0) and filters, before
\* any source element is read or any callback is invoked.
filterWithPositiveStart(o) ==
  /\ \E k \in 1..Len(o) : o[k].kind = "filter"
  /\ \E k \in 1..Len(o) : o[k].kind = "range" /\ o[k].start > 0

emits(o, data) == Len(refToArray(o, data, FALSE))

C5_ReduceSeedRules ==
  (ran("reduce") /\ ~hasRange(ops))
    => LET n == emits(ops, source)
           seeded == call.initialValue # undefined
       IN /\ (~seeded /\ n = 1)
               => /\ out.outcome = RetNumber(refToArray(ops, source, FALSE)[1])
                  /\ out.calls = <<>>
          /\ (~seeded /\ n = 0) => out.outcome = Thrown(EmptyReduceError)
          /\ out.outcome.kind = "throw" => (~seeded /\ n = 0)
          /\ (seeded /\ n = 0) => out.outcome = RetNumber(call.initialValue[1])

\* C6: on a pipeline that emits no element (empty source, or every element rejected by
\* the filters) toArray returns [], forEach never calls its sink, some returns false,
\* every returns true, find returns undefined and count returns 0.
emptyAnswer(kind) ==
  CASE kind = "toArray" -> RetArray(<<>>)
    [] kind = "forEach" -> RetUndefined
    [] kind = "some" -> RetBoolean(FALSE)
    [] kind = "every" -> RetBoolean(TRUE)
    [] kind = "find" -> RetUndefined
    [] OTHER -> RetNumber(0)

C6_EmptyPipelineAnswers ==
  (runs >= 1 /\ call.kind # "reduce" /\ ~hasRange(ops) /\ emits(ops, source) = 0)
    => /\ out.outcome = emptyAnswer(call.kind)
       /\ out.calls = <<>>

\* C7: when the plan is marked no-results (the pipeline holds the noMatch filter), each
\* terminal returns, without reading the source, what it returns on an empty source:
\* [] for toArray, nothing for forEach, false for some, true for every, undefined for
\* find and 0 for count.
onEmptySource(c) == runUnit(compile(version, arrayLike, <<>>, c), <<>>, <<>>).outcome

C7_NoResultsAnswers ==
  (runs >= 1 /\ call.kind # "reduce" /\ buildOpsUnrolled(ops).noResults)
    => /\ out.outcome = emptyAnswer(call.kind)
       /\ out.outcome = onEmptySource(call)
       /\ out.reads = 0
       /\ out.nextCalls = 0

\* C8: for forEach, some, every, find and reduce, on every pipeline (take/range
\* included), the return value, the values passed to the callback and the number of
\* source elements consumed do not depend on whether the callback declares the index.
otherArity(c) ==
  [c EXCEPT !.arity = IF c.kind = "reduce" THEN 5 - c.arity ELSE 3 - c.arity]

RECURSIVE passedValues(_, _)
passedValues(log, n) ==
  IF n = 0 THEN <<>> ELSE Append(passedValues(log, n - 1), <<log[n].acc, log[n].v>>)

C8_ArityDoesNotChangeOutcome ==
  (runs >= 1 /\ call.kind \in {"forEach", "some", "every", "find", "reduce"})
    => LET other == runUnit(compile(version, arrayLike, ops, otherArity(call)), source, cells)
       IN /\ out.outcome = other.outcome
          /\ passedValues(out.calls, Len(out.calls)) = passedValues(other.calls, Len(other.calls))
          /\ out.reads = other.reads

\* C9: on a generic iterable with a return hook, a some / every / find whose predicate
\* decides the result before the source is exhausted, and any terminal stopped by the
\* max-emit bound, invokes the hook exactly once.
resolvedEarly ==
  /\ out.calls # <<>>
  /\ \/ call.kind = "some" /\ out.outcome = RetBoolean(TRUE)
     \/ call.kind = "every" /\ out.outcome = RetBoolean(FALSE)
     \/ call.kind = "find" /\ out.outcome.kind = "number"

closes ==
  IF call.kind \in {"forEach", "some", "every", "find"} THEN Len(out.calls)
  ELSE out.emittedIndex

stoppedByMaxEmits ==
  LET b == buildOpsUnrolled(ops)
  IN /\ ~b.threw
     /\ ~b.noResults
     /\ b.maxEmits # undefined
     /\ closes >= 1
     /\ out.emittedIndex >= b.maxEmits[1]

C9_EarlyExitClosesIterator ==
  (runs >= 1 /\ ~arrayLike /\ (resolvedEarly \/ stoppedByMaxEmits))
    => out.returnCalls = 1

C9_Witness ==
  /\ runs = 1
  /\ ~arrayLike
  /\ source = <<1, 2, 3>>
  /\ ops = <<>>
  /\ call = Call("some", "gt1", 1, undefined)
  /\ out.outcome = RetBoolean(TRUE)
  /\ out.reads = 2
  /\ out.returnCalls = 1

\* C10: invoking a terminal twice on the same pipeline value over the same source
\* returns identical results, also for pipelines that contain drop / take.
C10_RerunSameResult ==
  runs = 2 => out.outcome = prev.outcome

Terminals == {"toArray", "forEach", "reduce", "some", "every", "find"}

\* C11: in the single-use Stream, once a stream has been consumed (by a terminal, or by
\* iterating it), every further attempt to consume it - a terminal, a new for...of
\* ([Symbol.iterator]()), or next() after a terminal - raises 'Stream already consumed'.
C11_ConsumedStreamRaises ==
  (/\ last.kind \in Terminals \cup {"iterator", "next"}
   /\ IF last.kind = "next" THEN last.used ELSE last.consumed)
    => last.outcome = Raised(AlreadyConsumed)

\* C12: an exception raised by a transform, filter, reducer, predicate or sink callback
\* while a terminal runs reaches the caller unmodified and aborts the terminal: nothing
\* is read from the source and no callback is invoked after the throwing call, no result
\* is returned, and the sink / reducer calls made before it stay made.
isRaise(e) == e.what # "read" /\ raises(e.fn, e.v)

calm(o) == [k \in 1..Len(o) |-> IF o[k].fn = Throwing THEN [o[k] EXCEPT !.fn = "calm"] ELSE o[k]]

shape(tr, n) == [k \in 1..n |-> <<tr[k].what, tr[k].v>>]

calmRun ==
  runUnit(compile(version, arrayLike, calm(ops),
                  IF call.fn = Throwing THEN [call EXCEPT !.fn = "calm"] ELSE call),
          source, cells)

C12_CallbackExceptionAborts ==
  runs >= 1 =>
    LET n == Len(out.trace)
    IN /\ \A k \in 1..n : isRaise(out.trace[k]) => (k = n /\ out.outcome = Thrown(Boom))
       /\ out.outcome = Thrown(Boom) => (n >= 1 /\ isRaise(out.trace[n]))
       /\ out.outcome = Thrown(Boom) =>
            /\ n <= Len(calmRun.trace)
            /\ shape(out.trace, n) = shape(calmRun.trace, n)
            /\ Len(out.calls) <= Len(calmRun.calls)
            /\ passedValues(out.calls, Len(out.calls))
                 = passedValues(calmRun.calls, Len(out.calls))

C12_Witness ==
  /\ runs = 1
  /\ source = <<1, 2, 3>>
  /\ ops = <<>>
  /\ call = Call("forEach", Throwing, 2, undefined)
  /\ out.outcome = Thrown(Boom)
  /\ Len(out.calls) = 2
  /\ out.reads = 2

\* C13: a chain method returns a new pipeline value whose operation list is the
\* receiver's list with operations appended at the end; it leaves the receiver (its
\* list, its consumption state) and the source unchanged, reads no source element and
\* invokes no callback (no iterator is created, no closure variable is touched).
isPrefix(a, b) == Len(a) < Len(b) /\ SubSeq(b, 1, Len(a)) = a

sibling(g) == [ops EXCEPT ![Len(ops)] = MapOp(g[1], g[2])]

runOf(o, c, cs) == runUnit(compile(version, arrayLike, o, c), source, cs).outcome

C14_SiblingsShareNoState ==
  [][(runs = 0 /\ runs' = 1 /\ ops # <<>> /\ ops[Len(ops)].kind = "map") =>
       \A g \in MapFns :
         runOf(sibling(g), call', cells') = runOf(sibling(g), call', cells)]_vars

\* C15: a text search finds nothing, whatever the element, when no field name is given,
\* and, whatever the fields, when no token of the query is longer than 2 characters
\* ('a an of'); this for the compiled filterText and for the manual search alike.
noTokenLongerThan2 ==
  LET tokens == tokenize(query) IN \A k \in 1..Len(tokens) : Len(tokens[k]) <= 2

C15_FilterTextFindsNothing == (fields = <<>> \/ noTokenLongerThan2) => ~found

toLowerCase(str) == [k \in 1..Len(str) |-> lower(str[k])]

startsWith(str, t) ==
  Len(t) <= Len(str) /\ SubSeq(toLowerCase(str), 1, Len(t)) = toLowerCase(t)

includes(str, t) ==
  \E from \in 1..(Len(str) - Len(t) + 1) :
    SubSeq(toLowerCase(str), from, from + Len(t) - 1) = toLowerCase(t)

\* the documented rule for one token and one field value
satisfies(str, t) == IF Len(t) < 4 THEN startsWith(str, t) ELSE includes(str, t)

everyTokenSatisfied(keys) ==
  LET tokens == tokenize(query)
      vs == fieldVars(user, keys)
  IN \A k \in 1..Len(tokens) : \E i \in 1..Len(vs) : satisfies(vs[i], tokens[k])

\* C16: case-insensitively, a token shorter than 4 characters is satisfied by a field
\* only if the field starts with it, a token of 4 or more if the field contains it: an
\* element that a search keeps has, for each token, a field that satisfies it by this
\* rule, and a one-token search that is specific enough keeps exactly such elements.
C16_FilterTextTokenRule ==
  /\ found => everyTokenSatisfied(fields)
  /\ (Len(tokenize(query)) = 1 /\ fields # <<>> /\ ~noTokenLongerThan2)
       => (found <=> everyTokenSatisfied(fields))

C16_TokenRule ==
  /\ C16_FilterTextTokenRule
  /\ manual => everyTokenSatisfied(<<"name", "emailAddress">>)
  /\ (Len(tokenize(query)) = 1 /\ ~notSpecificEnough(tokenize(query)))
       => (manual <=> everyTokenSatisfied(<<"name", "emailAddress">>))

RECURSIVE join(_)
join(tokens) ==
  IF tokens = <<>> THEN <<>>
  ELSE IF Len(tokens) = 1 THEN tokens[1]
  ELSE tokens[1] \o <<Blank>> \o join(Tail(tokens))

reorderings ==
  LET tokens == tokenize(query)
  IN { join([k \in 1..Len(tokens) |-> tokens[p[k]]]) : p \in Permutations(1..Len(tokens)) }

\* C18: writing the tokens of a query in another order does not change which elements
\* a text search accepts, for the compiled filterText and for the manual search alike.
C18_FilterTextIgnoresTokenOrder ==
  \A q \in reorderings : filterText(q, fields, user) = found

C18_TokenOrderIrrelevant ==
  /\ C18_FilterTextIgnoresTokenOrder
  /\ \A q \in reorderings : (manualSearch(<<user>>, q) # <<>>) = manual

\* the components of an upstream element: what its iterator yields, nothing for a
\* value that is not iterable
components(v) == IF v.iterable THEN v.items ELSE <<>>

RECURSIVE flat(_)
flat(list) == IF list = <<>> THEN <<>> ELSE components(Head(list)) \o flat(Tail(list))

firstOf(list, n) == SubSeq(list, 1, Min(Max(n, 0), Len(list)))
restOf(list, n) == SubSeq(list, Min(Max(n, 0), Len(list)) + 1, Len(list))

\* one operation applied to the whole sequence that reaches it
onePass(op, list, h) ==
  CASE op.kind = "flatten" -> flat(list)
    [] op.kind = "map" -> [k \in 1..Len(list) |-> fnOf(op.fn, list[k], 0)]
    [] op.fn = "drop" -> restOf(list, h[op.cell])
    [] op.fn = "take" -> firstOf(list, h[op.cell])
    [] OTHER -> SelectSeq(list, LAMBDA v : predicateOf(op.fn, v, 0, 0))

RECURSIVE passByPass(_, _, _)
passByPass(o, list, h) ==
  IF o = <<>> THEN list ELSE passByPass(Tail(o), onePass(Head(o), list, h), h)

usesIndex(o) == \E k \in 1..Len(o) : o[k].fn \in {"idx", "idxOdd"}

\* C19: flatten() emits each upstream element's components in order, one level deep
\* and none lost; the operations after flatten / flatMap work on the components, and
\* flatMap(f) is map(f) followed by flatten(): toArray() of a fresh stream returns
\* what applying its operations one after the other to the whole sequence gives.
C19_FlattenOneLevelInOrder ==
  [][(last'.kind = "toArray" /\ runs' = runs + 1 /\ ~last'.consumed
        /\ ~usesIndex(streams[last'.on].ops)) =>
       last'.outcome = Values(passByPass(streams[last'.on].ops, source, cells))]_vars

C19_Witness ==
  /\ last.kind = "toArray"
  /\ source = << Items(<<>>), Items(<< Items(atoms(<<1>>)), Atom(2) >>) >>
  /\ streams[last.on].ops = <<mapOp("pair"), FLATTEN_OP, FLATTEN_OP>>
  /\ last.outcome = Values(<< Items(atoms(<<1>>)), Atom(2), Items(atoms(<<1>>)), Atom(2) >>)

\* the documented classification
binaryView(c) == c.class \in TypedArrays \cup {"DataView"}

hasUsableLength(c) ==
  /\ c.class \notin {"null", "undefined"}
  /\ c.length.typeof = "number"
  /\ c.length.kind = "finite"
  /\ c.length.halves >= 0
  /\ (c.length.halves = 0 \/ c.has0)

documented(c) ==
  IF c.class = "Array" \/ (binaryView(c) /\ c.class # "DataView") \/ c.class = "string"
    THEN TRUE
  ELSE hasUsableLength(c)

Reads == {"Array.isArray", "ArrayBuffer.isView", "instanceof", "typeof", "get length", "has 0"}

\* C20: isArrayLike returns true for arrays, for every binary view but DataView and for
\* strings; for any other value exactly when it has a numeric length that is finite and
\* >= 0 and either the length is 0 or index 0 is present. The call only inspects the
\* candidate: it reads, tests and leaves it as it was.
C20_ClassifierAsDocumented ==
  [][verdict' # <<>> =>
       /\ verdict' = << documented(candidate) >>
       /\ candidate' = candidate
       /\ \A k \in 1..Len(accesses') : accesses'[k] \in Reads]_vars

C20_Witness ==
  /\ candidate = Candidate("Object", Number("finite", 3), TRUE)
  /\ verdict = <<TRUE>>
  /\ accesses = <<"Array.isArray", "ArrayBuffer.isView", "typeof", "get length", "get length", "has 0">>

\* --- C21
ranOn(k) == pipelines'[k].skeletons # pipelines[k].skeletons

\* C21: the classification of the source is computed at most once per pipeline value:
\* a chain method makes a new pipeline value without classifying (and without touching
\* the source), the first terminal on a pipeline value classifies the source once and
\* stores the answer, and every later terminal on that value uses the stored answer
\* and does not inspect the source again
C21_ClassifiedOncePerPipeline ==
  [][ /\ \A k \in 1..Len(pipelines) :
           /\ pipelines'[k].classified =
                pipelines[k].classified + (IF ranOn(k) /\ pipelines[k].isArrayLike = null THEN 1 ELSE 0)
           /\ pipelines'[k].classified <= 1
           /\ pipelines[k].isArrayLike # null => pipelines'[k].isArrayLike = pipelines[k].isArrayLike
           /\ ranOn(k) =>
                /\ pipelines'[k].isArrayLike = << isArrayLike(candidate).result >>
                /\ pipelines'[k].skeletons[Len(pipelines'[k].skeletons)]
                     = skeletonOf(isArrayLike(candidate).result)
      /\ \A k \in (Len(pipelines) + 1)..Len(pipelines') :
           pipelines'[k].isArrayLike = null /\ pipelines'[k].classified = 0
      /\ accesses' = accesses \o (IF \E k \in 1..Len(pipelines) : ranOn(k) /\ pipelines[k].isArrayLike = null
                                    THEN isArrayLike(candidate).accesses ELSE <<>>)
    ]_vars

C21_Witness ==
  /\ version = "Pipeline"
  /\ Len(pipelines) = MaxPipelines
  /\ Len(pipelines[1].skeletons) = MaxTerminals
  /\ pipelines[1].classified = 1
  /\ pipelines[2].isArrayLike = null
  /\ pipelines[3].classified = 1
  /\ candidate.class = "Object"
  /\ accesses = isArrayLike(candidate).accesses \o isArrayLike(candidate).accesses
  /\ verdict = <<TRUE>>

\* --- C22
closesIn(c, st) ==
  IF c.kind \in {"forEach", "some", "every", "find"} THEN Len(st.calls) ELSE st.emittedIndex

bounded(o) ==
  /\ ~buildOpsUnrolled(o).threw
  /\ ~buildOpsUnrolled(o).noResults
  /\ buildOpsUnrolled(o).maxEmits # undefined

\* the run of the same unit over the source without the last element that was read
oneReadLess == runUnit(compile(version, arrayLike, ops, call), firstN(source, out.reads - 1), cells)

\* C22: in every terminal and on both skeletons, when maxEmits is bounded the loop
\* performs at most maxEmits terminal closes, and the element whose close was the
\* maxEmits-th is the last one read: nothing is read and no callback runs after it
C22_MaxEmitsBoundsTheLoop ==
  (runs >= 1 /\ bounded(ops))
    => /\ closesIn(call, out) <= buildOpsUnrolled(ops).maxEmits[1]
       /\ out.reads >= 1 => closesIn(call, oneReadLess) < buildOpsUnrolled(ops).maxEmits[1]

\* --- C23
rangeless(o) == SelectSeq(o, LAMBDA op : op.kind # "range")

\* the elements that reach the terminal when nothing stops the loop, in order: the source
\* after the skipped prefix, passed through the transform and filter steps
reachTerminal ==
  restOf(refToArray(rangeless(ops), source, FALSE), buildOpsUnrolled(ops).skipInitial)

calledWith(st) == [k \in 1..Len(st.calls) |-> st.calls[k].v]

\* the predicate's answer that decides the terminal: true for some and find, false for every
decides(v) == callPredicate(call.fn, v, 0) = (call.kind # "every")

decided(v) ==
  CASE call.kind = "some" -> RetBoolean(TRUE)
    [] call.kind = "every" -> RetBoolean(FALSE)
    [] OTHER -> RetNumber(v)

firstDeciding(list) ==
  IF \E d \in 1..Len(list) : decides(list[d])
    THEN CHOOSE d \in 1..Len(list) : decides(list[d]) /\ \A j \in 1..(d - 1) : ~decides(list[j])
    ELSE 0

\* C23: some / every / find call the predicate once on each element that reaches the
\* terminal, in order, up to and including the first one that decides (true for some
\* and find, false for every); the deciding call is the last event of the run (no
\* later read, no later callback) and the result is true / false / that element's
\* value after all transforms; without a range nothing else stops the calls
C23_StopAtDecidingElement ==
  (runs >= 1 /\ call.kind \in {"some", "every", "find"} /\ ~buildOpsUnrolled(ops).threw)
    => LET passed == calledWith(out)
           n == Len(passed)
       IN /\ passed = firstN(reachTerminal, n)
          /\ \A k \in 1..(n - 1) : ~decides(passed[k])
          /\ (n >= 1 /\ decides(passed[n]))
               => /\ out.outcome = decided(passed[n])
                  /\ out.trace[Len(out.trace)] = event("terminal", call.fn, passed[n])
                  /\ closesIn(call, oneReadLess) < n
          /\ ~hasRange(ops)
               => n = (IF firstDeciding(reachTerminal) > 0 THEN firstDeciding(reachTerminal)
                       ELSE Len(reachTerminal))

\* find on [1, 2, 3] after (v, i) => v + i: 1, 3, 5 reach the terminal, 3 decides
C23_Witness ==
  /\ version = "StreamCompiler"
  /\ ran("find")
  /\ ops = << TransformOp("addIdx", 2) >>
  /\ source = <<1, 2, 3>>
  /\ calledWith(out) = <<1, 3>>
  /\ out.reads = 2
  /\ out.outcome = RetNumber(3)

\* --- C24
unseeded == call.kind = "reduce" /\ call.initialValue = undefined

\* the values the terminal callback is to be called with when nothing stops the loop:
\* a reduce without seed takes the first emitted element as its accumulator
toCallback == IF unseeded /\ reachTerminal # <<>> THEN Tail(reachTerminal) ELSE reachTerminal

declaresIndex(c) == IF c.kind = "reduce" THEN c.arity >= 3 ELSE c.arity >= 2

\* C24: on both skeletons a transform or filter callback receives the element's
\* position in the source, so the values reaching the terminal are those of the
\* positional reference passes, and a terminal callback receives the emitted index:
\* 0, 1, 2, ... in call order (1, 2, ... for a reduce without seed)
C24_LogicalAndEmittedIndex ==
  (runs >= 1 /\ ~buildOpsUnrolled(ops).threw)
    => /\ \A k \in 1..Len(out.calls) :
            /\ declaresIndex(call) => out.calls[k].i # undefined
            /\ out.calls[k].i # undefined
                 => out.calls[k].i[1] = (k - 1) + (IF unseeded THEN 1 ELSE 0)
       /\ call.kind = "toArray" =>
            out.outcome = RetArray(firstN(reachTerminal, Len(out.outcome.arr)))
       /\ call.kind \in {"forEach", "some", "every", "find", "reduce"} =>
            calledWith(out) = firstN(toCallback, Len(out.calls))

\* a filter drops the first element, then an index-reading transform, then an
\* index-reading sink: source index 1 and 2 for the steps, emitted index 0 and 1 for the sink
C24_Witness ==
  /\ ran("forEach")
  /\ call.arity = 2
  /\ ops = << FilterOp("idxOdd", 2), TransformOp("addIdx", 2) >>
  /\ source = <<1, 2, 3>>
  /\ out.calls = << [v |-> 3, i |-> <<0>>, acc |-> undefined] >>

\* --- C25
\* the same source elements, operations and terminal callback on the other skeleton
onOtherSkeleton == runUnit(compile(version, ~arrayLike, ops, call), source, cells)

\* C25: the indexed and the for...of skeleton give the same terminal result, the same
\* reads of the source and the same callback invocations with the same arguments, in
\* the same order, with or without a skip prefix and a max-emit bound
C25_SkeletonsAgree ==
  runs >= 1
    => /\ out.outcome = onOtherSkeleton.outcome
       /\ out.calls = onOtherSkeleton.calls
       /\ out.trace = onOtherSkeleton.trace
       /\ out.opCalls = onOtherSkeleton.opCalls

\* drop(1) then take(1) on the for...of skeleton: 1 is skipped, 2 emitted, 3 never read
C25_Witness ==
  /\ ran("forEach")
  /\ ~arrayLike
  /\ call.arity = 2
  /\ ops = << RangeOp(1, undefined), RangeOp(0, <<1>>) >>
  /\ source = <<1, 2, 3>>
  /\ out.calls = << [v |-> 2, i |-> <<0>>, acc |-> undefined] >>
  /\ out.reads = 2
  /\ out.returnCalls = 1

\* --- C26
\* Array.prototype.slice(start, end) for bounds >= 0, end possibly undefined
slice(list, start, end) ==
  SubSeq(list, start + 1, IF end = undefined THEN Len(list) ELSE Min(end[1], Len(list)))

\* each range applied, in chain order, as a slice of the previous result
RECURSIVE sliceBySlice(_, _)
sliceBySlice(o, list) ==
  IF o = <<>> THEN list
  ELSE sliceBySlice(Tail(o), slice(list, Head(o).start, Head(o).end))

onlyRanges(o) == o # <<>> /\ \A k \in 1..Len(o) : o[k].kind = "range"

\* C26: for a chain of range / drop / take operations, toArray yields what one gets
\* by applying each range in chain order as a slice of the previous result
C26_RangesComposeAsSlices ==
  (ran("toArray") /\ onlyRanges(ops))
    => out.outcome = RetArray(sliceBySlice(ops, source))

\* --- C27
\* the bounds of a range as whole numbers, clamped and not wrapped
clampedStart(op) == Max(0, op.start)
clampedLength(op) == Max(0, op.end[1] - clampedStart(op))

RECURSIVE totalSkip(_)
totalSkip(o) == IF o = <<>> THEN 0 ELSE clampedStart(Head(o)) + totalSkip(Tail(o))

RECURSIVE leastLength(_)
leastLength(o) ==
  IF o = <<>> THEN undefined
  ELSE IF Head(o).end = undefined THEN leastLength(Tail(o))
  ELSE IF leastLength(Tail(o)) = undefined THEN << clampedLength(Head(o)) >>
  ELSE << Min(clampedLength(Head(o)), leastLength(Tail(o))[1]) >>

\* C27: range bounds are clamped, never wrapped: a negative start counts as 0, an end
\* below start gives length 0, and a start or end at or above 2^31 counts with its own
\* value; after the ranges are folded skipInitial is the sum of the clamped starts and
\* maxEmits the least clamped length (both >= 0), and a lone range(start) skips
\* exactly that many elements
C27_RangeBoundsClampNotWrap ==
  version = "Range"
    => /\ buildOpsUnrolled(ops).skipInitial = totalSkip(ops)
       /\ buildOpsUnrolled(ops).maxEmits = leastLength(ops)
       /\ buildOpsUnrolled(ops).skipInitial >= 0
       /\ buildOpsUnrolled(ops).maxEmits # undefined => buildOpsUnrolled(ops).maxEmits[1] >= 0
       /\ (ran("toArray") /\ Len(ops) = 1 /\ ops[1].end = undefined)
            => out.outcome = RetArray(slice(source, clampedStart(ops[1]), undefined))

\* --- C28
\* the attempt left the fused iterator finished: return() was called on it, or next()
\* reported done, directly or inside the for...of loop of a terminal that ran (the loop
\* ends on done, an early exit calls return())
finished(a) ==
  \/ a.kind = "return"
  \/ a.kind = "next" /\ a.outcome = NoValue
  \/ a.kind \in Terminals /\ a.outcome # Raised(AlreadyConsumed)

\* C28: once return() has been called on the fused iterator of a stream, directly or
\* by the early exit of a terminal, or once next() has reported done, the next call
\* of next() on that stream reports done and emits no value
C28_FinishedIteratorStaysDone ==
  [][ (finished(last) /\ last'.kind = "next" /\ last'.on = last.on)
        => last'.outcome = NoValue ]_vars

\* --- C29
\* C29: for every element and every query, stream(data).filterText(query, 'name',
\* 'emailAddress').toArray() and manualSearch(data, query) keep the same elements
C29_CompiledEqualsManual ==
  (version = "Search" /\ fields = <<"name", "emailAddress">>) => found = manual

\* --- C30
\* the rows 0 .. n-1, in order
rowsInOrder(n) == [j \in 1..n |-> j - 1]

\* the loop of the generator has set currentIndex to each row before `i` once, in order,
\* and to every row when it is done
visitsInOrder(it) ==
  /\ it.visited = rowsInOrder(it.i)
  /\ it.done => it.i = Len(rows)

\* the field read from the proxy a step yielded is the field of the row of that step
readsOwnRow == proxy.observed # <<>> => proxy.observed.id = << rows[proxy.observed.row + 1] >>

\* what at(), toArray() and filter() returned holds the fields of the rows asked for,
\* whatever the proxy exposes now
copiesOfRows ==
  proxy.result # <<>> =>
    proxy.result.value =
      CASE proxy.result.of = "at" ->
             IF proxy.result.index \in 0..(Len(rows) - 1)
               THEN << [id |-> rows[proxy.result.index + 1]] >> ELSE undefined
        [] proxy.result.of = "toArray" -> [j \in 1..Len(rows) |-> [id |-> rows[j]]]
        [] OTHER -> proxy.result.value

\* C30: every iteration over a TypedArrayProxy visits each row once, in order, and the
\* fields read from the proxy a step yielded are those of the row of that step, also
\* when another iteration over the same proxy or a call of filter() or
\* filteredIterator() comes between the step and the read; at() and toArray() return
\* copies of the rows and leave the row the shared proxy exposes as it was
C30_IterationsDoNotDisturbEachOther ==
  version = "TypedArrayProxy" =>
    /\ \A k \in 1..Len(proxy.iterations) : visitsInOrder(proxy.iterations[k])
    /\ readsOwnRow
    /\ copiesOfRows
    /\ proxy.op \in {"at", "toArray"} => proxy.currentIndex = proxy.before
====
